---- MODULE Spec2Model ----
(***************************************************************************)
(* The conversation supervisor of the Canvas assistant                     *)
(* (backend/agents/supervisor.py, CanvasGPTSupervisor) together with the   *)
(* dispatch of CanvasPostAgent.process (backend/agents/canvas/             *)
(* post_agent.py).  Text is modelled as sequences of one-character         *)
(* strings, so that lower(), strip(), "in" and the regular expressions of  *)
(* the source are computed, not assumed.                                   *)
(***************************************************************************)
EXTENDS Integers, Sequences, FiniteSets, TLC

VARIABLES
    canvas_agent,          \* self.canvas_agent is not None
    pending_quiz,          \* self.pending_quiz
    pending_announcement,  \* self.pending_announcement
    pending_assignment,    \* self.pending_assignment
    pending_page,          \* self.pending_page
    messages,              \* self.state.messages
    context,               \* self.state.context
    request,               \* the arguments of the last call
    result,                \* what the last call returned
    trace,                 \* the collaborator calls the last call made, in order
    appended,              \* the log as the last call left it right after appending
                           \* the inbound message
    tasks,                 \* the process_message coroutines suspended at an await
    served                 \* number of process_message calls so far

vars == <<canvas_agent, pending_quiz, pending_announcement, pending_assignment,
          pending_page, messages, context, request, result, trace, appended,
          tasks, served>>

pending == <<pending_quiz, pending_announcement, pending_assignment, pending_page>>

(***************************************************************************)
(* Bounds of the model.                                                    *)
(***************************************************************************)
MaxCalls == 2
MaxCancelCalls == 3
NumTasks == 2
MaxStagingCalls == 1
MaxResults == 2
MaxDrainStaging == 2
MaxFileCalls == 3

(***************************************************************************)
(* Python values.                                                          *)
(***************************************************************************)
None == [none |-> TRUE]

\* Python truthiness of an Optional[dict] slot: every staged dict has keys
Truthy(v) == v # None

(***************************************************************************)
(* Python str operations on sequences of characters.                       *)
(***************************************************************************)
UpperCase == <<"A", "B", "C", "D", "E", "F", "G", "H", "I", "J", "K", "L", "M",
               "N", "O", "P", "Q", "R", "S", "T", "U", "V", "W", "X", "Y", "Z">>
LowerCase == <<"a", "b", "c", "d", "e", "f", "g", "h", "i", "j", "k", "l", "m",
               "n", "o", "p", "q", "r", "s", "t", "u", "v", "w", "x", "y", "z">>
Digits == <<"0", "1", "2", "3", "4", "5", "6", "7", "8", "9">>

LowerChar(c) ==
    IF \E i \in 1..26 : UpperCase[i] = c
    THEN LowerCase[CHOOSE i \in 1..26 : UpperCase[i] = c]
    ELSE c

\* str.lower()
lower(s) == [i \in 1..Len(s) |-> LowerChar(s[i])]

\* the characters str.strip() removes and \s matches
IsSpace(c) == c \in {" ", "\n", "\t", "\r"}

IsDigit(c) == \E i \in 1..10 : Digits[i] = c

DigitValue(c) == (CHOOSE i \in 1..10 : Digits[i] = c) - 1

\* pat occurs in s at position i
MatchAt(s, pat, i) ==
    /\ i >= 1
    /\ i + Len(pat) - 1 <= Len(s)
    /\ \A k \in 1..Len(pat) : s[i + k - 1] = pat[k]

\* pat in s
contains(s, pat) == \E i \in 1..(Len(s) - Len(pat) + 1) : MatchAt(s, pat, i)

\* s.find(pat), 1-based; 0 when absent (Python's -1)
find(s, pat) ==
    IF contains(s, pat)
    THEN CHOOSE i \in 1..(Len(s) - Len(pat) + 1) :
            /\ MatchAt(s, pat, i)
            /\ \A j \in 1..(i - 1) : ~MatchAt(s, pat, j)
    ELSE 0

\* s.find(pat, start) with start a 1-based position; 0 when absent
findFrom(s, pat, start) ==
    IF \E i \in start..(Len(s) - Len(pat) + 1) : MatchAt(s, pat, i)
    THEN CHOOSE i \in start..(Len(s) - Len(pat) + 1) :
            /\ MatchAt(s, pat, i)
            /\ \A j \in start..(i - 1) : ~MatchAt(s, pat, j)
    ELSE 0

\* str.strip()
strip(s) ==
    IF \A i \in 1..Len(s) : IsSpace(s[i])
    THEN <<>>
    ELSE LET a == CHOOSE i \in 1..Len(s) :
                     ~IsSpace(s[i]) /\ \A j \in 1..(i - 1) : IsSpace(s[j])
             b == CHOOSE i \in 1..Len(s) :
                     ~IsSpace(s[i]) /\ \A j \in (i + 1)..Len(s) : IsSpace(s[j])
         IN  SubSeq(s, a, b)

\* s[:n]
prefix(s, n) == SubSeq(s, 1, IF Len(s) < n THEN Len(s) ELSE n)

\* s[i:] with i a 1-based position
suffixFrom(s, i) == SubSeq(s, i, Len(s))

(***************************************************************************)
(* Fixed strings of the source.                                            *)
(***************************************************************************)
S_title == <<"t", "i", "t", "l", "e", ":">>
S_link == <<"l", "i", "n", "k", ":">>
S_Assignment == <<"A", "s", "s", "i", "g", "n", "m", "e", "n", "t", ":">>
S_assignment == <<"a", "s", "s", "i", "g", "n", "m", "e", "n", "t">>
S_quiz == <<"q", "u", "i", "z">>
S_Questions == <<"Q", "u", "e", "s", "t", "i", "o", "n", "s">>
S_CorrectAnswer == <<"(", "C", "o", "r", "r", "e", "c", "t", " ", "A", "n", "s", "w", "e", "r", ":">>
S_points == <<"p", "o", "i", "n", "t", "s">>
S_should == <<"s", "h", "o", "u", "l", "d">>
S_be == <<"b", "e">>
S_submission_type == <<"s", "u", "b", "m", "i", "s", "s", "i", "o", "n", " ", "t", "y", "p", "e", " ", "s", "h", "o", "u", "l", "d", " ", "b", "e">>
S_text_entry == <<"t", "e", "x", "t", " ", "e", "n", "t", "r", "y">>
S_file_upload == <<"f", "i", "l", "e", " ", "u", "p", "l", "o", "a", "d">>
S_url == <<"u", "r", "l">>
S_with_the_file_uploaded == <<"w", "i", "t", "h", " ", "t", "h", "e", " ", "f", "i", "l", "e", " ", "u", "p", "l", "o", "a", "d", "e", "d">>
S_create_an_assignment == <<"c", "r", "e", "a", "t", "e", " ", "a", "n", " ", "a", "s", "s", "i", "g", "n", "m", "e", "n", "t">>
S_post_assignment == <<"p", "o", "s", "t", " ", "a", "s", "s", "i", "g", "n", "m", "e", "n", "t">>
S_assignment_where == <<"a", "s", "s", "i", "g", "n", "m", "e", "n", "t", " ", "w", "h", "e", "r", "e">>
S_as_a_page == <<"a", "s", " ", "a", " ", "p", "a", "g", "e">>
S_as_a_quiz == <<"a", "s", " ", "a", " ", "q", "u", "i", "z">>
S_Quiz == <<"Q", "u", "i", "z">>
S_GeneratedContent == <<"G", "e", "n", "e", "r", "a", "t", "e", "d", " ", "C", "o", "n", "t", "e", "n", "t">>
S_SharedLink == <<"S", "h", "a", "r", "e", "d", " ", "L", "i", "n", "k">>

\* the tokens of process_message
AffirmativeTokens == {<<"y", "e", "s">>,
                      <<"p", "o", "s", "t", " ", "i", "t">>,
                      <<"p", "o", "s", "t">>,
                      <<"y", "e", "s", " ", "p", "o", "s", "t", " ", "i", "t">>}
NegativeTokens == {<<"n", "o">>,
                   <<"c", "a", "n", "c", "e", "l">>,
                   <<"d", "o", "n", "t", " ", "p", "o", "s", "t">>,
                   <<"d", "o", "n", "'", "t", " ", "p", "o", "s", "t">>}

\* the affirmative test done with "in" on the text instead of on the list
IsAffirmative_Substring(lower_message) ==
    \E t \in AffirmativeTokens : contains(lower_message, t)

\* lower_message in ['yes', 'post it', 'post', 'yes post it']
IsAffirmative(lower_message) == lower_message \in AffirmativeTokens

\* lower_message in ['no', 'cancel', 'dont post', "don't post"]
IsNegative(lower_message) == lower_message \in NegativeTokens

(***************************************************************************)
(* Parameter extraction of the supervisor.                                 *)
(***************************************************************************)
\* re.search(r'\[(.*?)\]', message): the positions <<i, j>> of the brackets of
\* the leftmost match; "." does not match a newline
CourseMatches(message) ==
    {i \in 1..Len(message) :
        /\ message[i] = "["
        /\ \E j \in (i + 1)..Len(message) :
              /\ message[j] = "]"
              /\ \A k \in (i + 1)..(j - 1) : message[k] \notin {"]", "\n"}}

HasCourse(message) == CourseMatches(message) # {}

\* course_match.group(1)
CourseName(message) ==
    LET i == CHOOSE a \in CourseMatches(message) :
                 \A b \in CourseMatches(message) : a <= b
        j == CHOOSE a \in (i + 1)..Len(message) :
                 message[a] = "]" /\ \A k \in (i + 1)..(a - 1) : message[k] # "]"
    IN  SubSeq(message, i + 1, j - 1)

\* the end of the line that position q is on
LineEnd(s, q) ==
    IF \E r \in q..Len(s) : s[r] = "\n"
    THEN (CHOOSE r \in q..Len(s) :
             s[r] = "\n" /\ \A k \in q..(r - 1) : s[k] # "\n") - 1
    ELSE Len(s)

\* the number of whitespace characters of s from position e on
SpaceRun(s, e) ==
    IF \A k \in e..Len(s) : IsSpace(s[k])
    THEN Len(s) - e + 1
    ELSE (CHOOSE k \in e..Len(s) :
             ~IsSpace(s[k]) /\ \A j \in e..(k - 1) : IsSpace(s[j])) - e

\* re.search(r'title:\s*([^\n]+)', message, re.IGNORECASE): the positions p
\* at which the pattern matches
TitleMatches(message) ==
    {p \in 1..Len(message) :
        /\ MatchAt(lower(message), S_title, p)
        /\ \E n \in 0..SpaceRun(message, p + 6) :
              /\ p + 6 + n <= Len(message)
              /\ message[p + 6 + n] # "\n"}

\* CanvasGPTSupervisor._extract_title; None and "" are both <<>>: every caller
\* only tests the result for truth
ExtractTitle(message) ==
    IF contains(lower(message), S_title) /\ TitleMatches(message) # {}
    THEN LET p == CHOOSE a \in TitleMatches(message) :
                      \A b \in TitleMatches(message) : a <= b
             e == p + 6
             \* \s* is greedy: it keeps as many blanks as leave a character
             \* other than a newline for the group
             n == CHOOSE a \in 0..SpaceRun(message, e) :
                      /\ e + a <= Len(message)
                      /\ message[e + a] # "\n"
                      /\ \A b \in (a + 1)..SpaceRun(message, e) :
                            ~(e + b <= Len(message) /\ message[e + b] # "\n")
         IN  strip(SubSeq(message, e + n, LineEnd(message, e + n)))
    ELSE <<>>

\* the value of a run of digits s[a..b]
RECURSIVE DigitsValue(_, _, _)
DigitsValue(s, a, b) ==
    IF b < a THEN 0 ELSE 10 * DigitsValue(s, a, b - 1) + DigitValue(s[b])

\* the end of the run of digits that starts at position a
DigitsEnd(s, a) ==
    IF \A k \in a..Len(s) : IsDigit(s[k])
    THEN Len(s)
    ELSE (CHOOSE k \in a..Len(s) :
             ~IsDigit(s[k]) /\ \A j \in a..(k - 1) : IsDigit(s[j])) - 1

\* re.search(r'points\s*should\s*be\s*(\d+)', message): the position of the
\* digits for a match that starts at p, 0 when there is none
PointsDigitsAt(s, p) ==
    IF ~MatchAt(s, S_points, p) THEN 0
    ELSE LET a == p + 6 + SpaceRun(s, p + 6)
         IN  IF ~MatchAt(s, S_should, a) THEN 0
             ELSE LET b == a + 6 + SpaceRun(s, a + 6)
                  IN  IF ~MatchAt(s, S_be, b) THEN 0
                      ELSE LET c == b + 2 + SpaceRun(s, b + 2)
                           IN  IF c <= Len(s) /\ IsDigit(s[c]) THEN c ELSE 0

DefaultPoints == 100

\* a points extraction without the default
ExtractPoints_NoDefault(message) ==
    IF \E p \in 1..Len(message) : PointsDigitsAt(message, p) # 0
    THEN LET p == CHOOSE a \in 1..Len(message) :
                      /\ PointsDigitsAt(message, a) # 0
                      /\ \A b \in 1..(a - 1) : PointsDigitsAt(message, b) = 0
             c == PointsDigitsAt(message, p)
         IN  DigitsValue(message, c, DigitsEnd(message, c))
    ELSE 0

\* points of _handle_assignment_request
ExtractPoints(message) ==
    IF \E p \in 1..Len(message) : PointsDigitsAt(message, p) # 0
    THEN LET p == CHOOSE a \in 1..Len(message) :
                      /\ PointsDigitsAt(message, a) # 0
                      /\ \A b \in 1..(a - 1) : PointsDigitsAt(message, b) = 0
             c == PointsDigitsAt(message, p)
         IN  DigitsValue(message, c, DigitsEnd(message, c))
    ELSE DefaultPoints

\* submission_types of _handle_assignment_request
ExtractSubmissionTypes(message) ==
    IF contains(lower(message), S_submission_type)
    THEN IF contains(lower(message), S_text_entry) THEN <<"online_text_entry">>
         ELSE IF contains(lower(message), S_file_upload) THEN <<"online_upload">>
         ELSE IF contains(lower(message), S_url) THEN <<"online_url">>
         ELSE <<"online_text_entry">>
    ELSE <<"online_text_entry">>

\* a marker test that finds the marker in every message
HasAssignmentMarker_Always(message) == TRUE

\* re.search(r'Assignment:(.*?)(?=$)', message, re.DOTALL)
HasAssignmentMarker(message) == contains(message, S_Assignment)

\* assignment_match.group(1).strip()
AssignmentContent(message) ==
    strip(suffixFrom(message, find(message, S_Assignment) + Len(S_Assignment)))

\* the structured-quiz test of _handle_quiz_request
IsStructuredQuiz(message) ==
    contains(message, S_Questions) /\ contains(message, S_CorrectAnswer)

\* message[message.find("Questions"):]
StructuredQuizContent(message) == suffixFrom(message, find(message, S_Questions))

(***************************************************************************)
(* Text the supervisor builds.  A text is a sequence of strings: a string  *)
(* of one character is that character; a longer string is a fragment of a  *)
(* literal of the source that holds none of the markers the code searches  *)
(* a content for ("Assignment:", "(Correct Answer:"), so that searching a  *)
(* text for a marker finds exactly the occurrences the code finds.         *)
(***************************************************************************)
NL == <<"\n">>

R_NotConfigured == <<"Canvas is not configured. Please provide Canvas API credentials.">>
R_NoCourse == <<"Please specify a course name in square brackets, e.g. [Course Name]">>
R_NoAssignmentContent ==
    <<"Please include '">> \o S_Assignment \o <<"' followed by the assignment content.">>
R_NothingToCancel == <<"Nothing to cancel.">>
R_QuizCancelled == <<"Quiz creation cancelled.">>
R_AnnouncementCancelled == <<"Announcement cancelled.">>
R_AssignmentCancelled == <<"Assignment creation cancelled.">>
R_PageCancelled == <<"Page creation cancelled.">>
R_NoCourses == <<"No courses found or error retrieving courses.">>
Q_Quiz == <<"Would you like me to create this quiz? (Reply with 'yes' to create or 'no' to cancel)">>
Q_Announcement == <<"Would you like me to post this announcement? (Reply with 'yes' to post or 'no' to cancel)">>
Q_Assignment == <<"Would you like me to create this assignment? (Reply with 'yes' to create or 'no' to cancel)">>

\* the dict every return of the supervisor builds
Reply(response, agent) ==
    [response |-> response, agent |-> agent, conversation_id |-> "id(self.state)"]

\* Message(content=..., role=..., metadata=...)
Message(content, role, metadata) ==
    [content |-> content, type |-> "text", role |-> role, metadata |-> metadata]

ContextWindow == 5

\* self.state.messages with no slice: the whole log
LastMessages_All(msgs) == msgs

\* self.state.messages[-5:]
LastMessages(msgs) ==
    SubSeq(msgs, IF Len(msgs) > ContextWindow THEN Len(msgs) - ContextWindow + 1 ELSE 1,
           Len(msgs))

\* "\n".join(conversation_history) of _get_conversation_context
RECURSIVE JoinHistory(_)
JoinHistory(msgs) ==
    IF msgs = <<>> THEN <<>>
    ELSE LET m == msgs[Len(msgs)]
             line == (IF m.role = "user" THEN <<"User: ">> ELSE <<"Assistant: ">>)
                     \o m.content
         IN  IF Len(msgs) = 1 THEN line
             ELSE JoinHistory(SubSeq(msgs, 1, Len(msgs) - 1)) \o NL \o line

\* CanvasGPTSupervisor._get_conversation_context on the log msgs
GetConversationContext(msgs, current_message) ==
    IF msgs = <<>> THEN <<>>
    ELSE IF JoinHistory(LastMessages(msgs)) = <<>> THEN <<>>
    ELSE NL \o <<"        Previous conversation:">> \o NL \o <<"        ">>
         \o JoinHistory(LastMessages(msgs)) \o NL \o NL
         \o <<"        Current message: ">> \o current_message \o NL \o <<"        ">>

(***************************************************************************)
(* The file handler (DocumentHandlerAgent.process_file).                   *)
(***************************************************************************)
SupportedExtensions == {<<".", "p", "d", "f">>, <<".", "d", "o", "c", "x">>, <<".", "j", "p", "g">>,
                        <<".", "j", "p", "e", "g">>, <<".", "p", "n", "g">>, <<".", "c", "s", "v">>, <<".", "x", "l", "s", "x">>}

\* filename.lower().split('.')[-1] if '.' in filename else ''
FileExtension(filename) ==
    IF contains(filename, <<".">>)
    THEN LET d == CHOOSE i \in 1..Len(filename) :
                      filename[i] = "." /\ \A j \in (i + 1)..Len(filename) : filename[j] # "."
         IN  suffixFrom(lower(filename), d + 1)
    ELSE <<>>

\* process_file without the test of the extension
ProcessFile_AnyExtension(file) ==
    IF ~file.readable
    THEN [success |-> FALSE, error |-> <<"Error handling file: ">> \o <<"(read error)">>]
    ELSE [success |-> TRUE, content |-> IF file.empty THEN "" ELSE "bytes",
          filename |-> file.filename, file_type |-> FileExtension(file.filename)]

\* process_file: file is [filename, readable, empty]
ProcessFile(file) ==
    IF ~file.readable
    THEN [success |-> FALSE, error |-> <<"Error handling file: ">> \o <<"(read error)">>]
    ELSE IF (<<".">> \o FileExtension(file.filename)) \notin SupportedExtensions
    THEN [success |-> FALSE,
          error |-> <<"Unsupported file type: ">> \o FileExtension(file.filename)]
    ELSE [success |-> TRUE, content |-> IF file.empty THEN "" ELSE "bytes",
          filename |-> file.filename, file_type |-> FileExtension(file.filename)]

(***************************************************************************)
(* CanvasPostAgent (canvas/post_agent.py).                                 *)
(***************************************************************************)
\* CanvasPostAgent._extract_title; None and "" are both <<>>
PostExtractTitle(message) ==
    IF contains(lower(message), S_title)
    THEN LET title_start == find(lower(message), S_title) + 6
         IN  strip(SubSeq(message, title_start,
                          IF findFrom(message, NL, title_start) = 0
                          THEN Len(message)
                          ELSE findFrom(message, NL, title_start) - 1))
    ELSE <<>>

S_http == <<"h", "t", "t", "p", ":", "/", "/">>
S_https == <<"h", "t", "t", "p", "s", ":", "/", "/">>
S_www == <<"w", "w", "w", ".">>

\* [^\s<>"']
IsUrlChar(c) == ~IsSpace(c) /\ c \notin {"<", ">", "\"", "'"}

\* the length of the prefix (http://, https://, www.) of a URL that starts
\* at position p, 0 when none does
UrlPrefixAt(s, p) ==
    IF MatchAt(s, S_http, p) /\ p + 7 <= Len(s) /\ IsUrlChar(s[p + 7]) THEN 7
    ELSE IF MatchAt(s, S_https, p) /\ p + 8 <= Len(s) /\ IsUrlChar(s[p + 8]) THEN 8
    ELSE IF MatchAt(s, S_www, p) /\ p + 4 <= Len(s) /\ IsUrlChar(s[p + 4]) THEN 4
    ELSE 0

\* the end of the run of URL characters that starts at position a
UrlEnd(s, a) ==
    IF \A k \in a..Len(s) : IsUrlChar(s[k])
    THEN Len(s)
    ELSE (CHOOSE k \in a..Len(s) :
             ~IsUrlChar(s[k]) /\ \A j \in a..(k - 1) : IsUrlChar(s[j])) - 1

\* CanvasPostAgent._extract_link; None and "" are both <<>>
ExtractLink(message) ==
    IF contains(lower(message), S_link)
    THEN LET link_start == find(lower(message), S_link) + 5
         IN  strip(SubSeq(message, link_start,
                          IF findFrom(message, <<" ">>, link_start) = 0
                          THEN Len(message)
                          ELSE findFrom(message, <<" ">>, link_start) - 1))
    ELSE IF \E p \in 1..Len(message) : UrlPrefixAt(message, p) # 0
    THEN LET p == CHOOSE a \in 1..Len(message) :
                      /\ UrlPrefixAt(message, a) # 0
                      /\ \A b \in 1..(a - 1) : UrlPrefixAt(message, b) = 0
         IN  SubSeq(message, p, UrlEnd(message, p + UrlPrefixAt(message, p)))
    ELSE <<>>

\* CanvasPostAgent.get_course_id over the list list_courses returned; the id
\* is a text, None is <<>>
GetCourseId(courses, course_name) ==
    IF \E i \in 1..Len(courses) : contains(lower(courses[i].name), lower(course_name))
    THEN LET i == CHOOSE a \in 1..Len(courses) :
                      /\ contains(lower(courses[a].name), lower(course_name))
                      /\ \A b \in 1..(a - 1) :
                            ~contains(lower(courses[b].name), lower(course_name))
         IN  courses[i].id
    ELSE <<>>

\* a match of r'\d+\.\s+' that starts at position i: the position of its last
\* character, 0 when there is none
SeparatorEnd(s, i) ==
    IF i <= Len(s) /\ IsDigit(s[i])
    THEN LET e == DigitsEnd(s, i)
         IN  IF e + 2 <= Len(s) /\ s[e + 1] = "." /\ IsSpace(s[e + 2])
             THEN e + 1 + SpaceRun(s, e + 2)
             ELSE 0
    ELSE 0

\* re.split(r'\d+\.\s+', content) scanned from position i, the current block
\* having started at position start
RECURSIVE SplitQuestions(_, _, _)
SplitQuestions(s, i, start) ==
    IF i > Len(s) THEN <<SubSeq(s, start, Len(s))>>
    ELSE IF SeparatorEnd(s, i) # 0
    THEN <<SubSeq(s, start, i - 1)>>
         \o SplitQuestions(s, SeparatorEnd(s, i) + 1, SeparatorEnd(s, i) + 1)
    ELSE SplitQuestions(s, i + 1, start)

S_ABCD == <<"A", "B", "C", "D">>

\* re.search(r'\(Correct Answer:\s*([A-D])\)', block): the positions of the
\* letter of a match
CorrectAnswerMatches(block) ==
    {q \in 1..Len(block) :
        /\ \E p \in 1..q :
              /\ MatchAt(block, S_CorrectAnswer, p)
              /\ q = p + 16 + SpaceRun(block, p + 16)
        /\ \E k \in 1..4 : block[q] = S_ABCD[k]
        /\ q + 1 <= Len(block)
        /\ block[q + 1] = ")"}

\* 'A.' + 'A.'.join(block.split('A.')[1:]): the block from its first "A." on
OptionsText(block) ==
    IF find(block, <<"A", ".">>) = 0 THEN <<"A", ".">>
    ELSE suffixFrom(block, find(block, <<"A", ".">>))

\* the class [^A-D\(] of the option pattern
IsOptionChar(c) == c \notin {"A", "B", "C", "D", "("}

\* a match of fr'{letter}\.\s*([^A-D\(]+)' that starts at position p: \s*
\* takes the whole run of spaces when an option character follows it, and
\* gives back its last space to the group otherwise
OptionMatchAt(s, letter, p) ==
    /\ p + 1 <= Len(s)
    /\ s[p] = letter
    /\ s[p + 1] = "."
    /\ \/ /\ p + 2 + SpaceRun(s, p + 2) <= Len(s)
          /\ IsOptionChar(s[p + 2 + SpaceRun(s, p + 2)])
       \/ SpaceRun(s, p + 2) >= 1

\* match.group(1).strip() of the match that starts at position p
OptionText(s, p) ==
    LET g == p + 2 + SpaceRun(s, p + 2)
    IN  IF g <= Len(s) /\ IsOptionChar(s[g])
        THEN strip(SubSeq(s, g,
                          CHOOSE e \in g..Len(s) :
                              /\ \A k \in g..e : IsOptionChar(s[k])
                              /\ e = Len(s) \/ ~IsOptionChar(s[e + 1])))
        ELSE <<>>

\* the letters A to D for which re.search finds an option in options_text,
\* in that order
OptionLetters(options_text) ==
    SelectSeq(S_ABCD,
              LAMBDA letter : \E p \in 1..Len(options_text) :
                                  OptionMatchAt(options_text, letter, p))

\* canvas_answers: the text of every option found, with weight 100 for the
\* letter of the correct answer and weight 0 for the others
CanvasAnswers(options_text, letters, correct_letter) ==
    [i \in 1..Len(letters) |->
        [text |-> OptionText(options_text,
                             CHOOSE p \in 1..Len(options_text) :
                                 /\ OptionMatchAt(options_text, letters[i], p)
                                 /\ \A o \in 1..(p - 1) :
                                       ~OptionMatchAt(options_text, letters[i], o)),
         weight |-> IF letters[i] = correct_letter THEN 100 ELSE 0]]

\* CanvasPostAgent.parse_structured_quiz: one question per block that names
\* its correct answer
ParseStructuredQuiz(content) ==
    LET blocks == SplitQuestions(content, 1, 1)
        kept == SelectSeq(blocks, LAMBDA b : strip(b) # <<>>)
        valid == SelectSeq(kept, LAMBDA b : CorrectAnswerMatches(strip(b)) # {})
    IN  [i \in 1..Len(valid) |->
            LET b == strip(valid[i])
                q == CHOOSE a \in CorrectAnswerMatches(b) :
                         \A c \in CorrectAnswerMatches(b) : a <= c
            IN  [question_text |-> strip(SubSeq(b, 1,
                                     IF find(b, <<"A", ".">>) = 0 THEN Len(b)
                                     ELSE find(b, <<"A", ".">>) - 1)),
                 correct_letter |-> b[q],
                 answers |-> CanvasAnswers(OptionsText(b),
                                           OptionLetters(OptionsText(b)), b[q])]]

\* _get_fallback_questions returns one question; the prompt of
\* _generate_quiz_questions asks the LLM for five
FallbackQuestions == 1
PromptedQuestions == 5

\* a call of the Canvas API made for the supervisor
Call(op, course_id, title, content) ==
    [op |-> op, course_id |-> course_id, title |-> title, content |-> content]

\* n calls of quiz_agent.add_question
AddQuestions(course_id, n) ==
    [i \in 1..n |-> Call("add_question", course_id, <<>>, <<>>)]

Ok(message) == [success |-> TRUE, message |-> message]
Fail(message) == [success |-> FALSE, message |-> message]

\* CanvasPostAgent.handle_structured_quiz; exec is the answer of the Canvas API
HandleStructuredQuiz(course_id, title, content, exec) ==
    LET questions == ParseStructuredQuiz(content)
    IN  IF questions = <<>>
        THEN [res |-> Fail(<<"No valid questions could be parsed from the content">>),
              trace |-> <<>>]
        ELSE IF exec = "error"
        THEN [res |-> Fail(<<"Error creating quiz: ", "(api error)">>),
              trace |-> <<Call("create_quiz", course_id, title, content)>>]
        ELSE [res |-> Ok(<<"Successfully created quiz with ", "(n)", " questions">>),
              trace |-> <<Call("create_quiz", course_id, title, content)>>
                        \o AddQuestions(course_id, Len(questions))]

\* the content of a direct link post
LinkContent(link) ==
    <<"<p><a href=\"">> \o link \o <<"\" target=\"_blank\">">> \o link \o <<"</a></p>">>

\* process() once the course is named: course_name, course_id, title0 and link
\* are what the course match, get_course_id, _extract_title and
\* _extract_link gave
ProcessCourse(content, message, o, course_name, course_id, title0, link) ==
    LET listed == <<[op |-> "list_courses"]>>
        content1 == IF link # <<>> THEN [dict |-> FALSE, str |-> LinkContent(link)]
                    ELSE content
        title1 == IF link # <<>> /\ title0 = <<>> THEN S_SharedLink ELSE title0
        \* _generate_title slices content: a dict raises there, which gives
        \* the fallback title
        title == IF title1 # <<>> THEN title1
                 ELSE IF content1.dict THEN S_GeneratedContent ELSE o.gen_title
        generated == IF title1 # <<>> THEN <<>> ELSE <<[op |-> "generate_title"]>>
        pre == listed \o generated
    IN  IF course_id = <<>>
        THEN [res |-> Fail(<<"Could not find course: ">> \o course_name),
              trace |-> listed]
        ELSE IF link = <<>> /\ ~content.dict /\ content.str = <<>>
        THEN [res |-> Fail(<<"No content or link provided">>), trace |-> listed]
        ELSE IF contains(lower(message), S_assignment)
        THEN \* content.split("Assignment:", 1): a dict has no split
             IF content1.dict
             THEN [res |-> Fail(<<"Error in content creation: ", "(AttributeError)">>),
                   trace |-> pre]
             ELSE IF ~contains(content1.str, S_Assignment)
             THEN [res |-> Fail(<<"Could not find assignment content. Please include '">>
                                \o S_Assignment \o <<"' followed by the content.">>),
                   trace |-> pre]
             ELSE LET assignment_content ==
                          strip(suffixFrom(content1.str,
                                           find(content1.str, S_Assignment) + 11))
                      call == Call("create_assignment", course_id, title,
                                   <<"<div class='assignment-content'>">>
                                   \o assignment_content \o <<"</div>">>)
                  IN  IF o.exec = "error"
                      THEN [res |-> Fail(<<"Error creating assignment: ", "(api error)">>),
                            trace |-> pre \o <<call>>]
                      ELSE [res |-> Ok(<<"Successfully created assignment in ">>
                                       \o course_name \o <<"!">>),
                            trace |-> pre \o <<call>>]
        ELSE IF contains(lower(message), S_quiz)
                /\ ~content1.dict /\ contains(content1.str, S_CorrectAnswer)
        THEN LET r == HandleStructuredQuiz(course_id, title, content1.str, o.exec)
             IN  [res |-> r.res, trace |-> pre \o r.trace]
        ELSE IF contains(lower(message), S_quiz)
        THEN LET call == Call("create_quiz", course_id, title,
                              IF content1.dict THEN content1.text ELSE content1.str)
                 asked == <<[op |-> "generate_quiz_questions"]>>
             IN  IF o.exec = "error"
                 THEN [res |-> Fail(<<"Error creating quiz: ", "(api error)">>),
                       trace |-> pre \o asked \o <<call>>]
                 ELSE [res |-> Ok(<<"Successfully created quiz with ", "(n)", " questions">>),
                       trace |-> pre \o asked \o <<call>>
                                 \o AddQuestions(course_id,
                                                 \* content[:4000] of a dict raises:
                                                 \* the fallback question
                                                 IF content1.dict THEN FallbackQuestions
                                                 ELSE o.questions)]
        ELSE \* create_announcement(course_id=..., title=..., content=...): the
             \* method has no parameter "content", the call raises TypeError
             [res |-> Fail(<<"Error in content creation: ", "(TypeError)">>),
              trace |-> pre]

\* CanvasPostAgent.process(content, message).  content is
\* [dict |-> FALSE, str |-> text] or [dict |-> TRUE, text, file_content,
\* filename]; o holds what the collaborators answer: courses (list_courses),
\* exec (the Canvas API: "ok" or "error"), gen_title (the LLM's title),
\* questions (how many questions the LLM generated).  The value is the dict
\* returned and the calls made.
Process(content, message, o) ==
    IF ~HasCourse(message) THEN [res |-> Fail(R_NoCourse), trace |-> <<>>]
    ELSE ProcessCourse(content, message, o, CourseName(message),
                       GetCourseId(o.courses, CourseName(message)),
                       PostExtractTitle(message), ExtractLink(message))

(***************************************************************************)
(* What the collaborators may answer.                                      *)
(***************************************************************************)
\* the reply of the LLM to the routing prompt, after strip().lower()
Labels == {"canvas_quiz", "canvas_post", "canvas_list", "canvas_assignment",
           "canvas_page", "web_search", "general", "unknown"}
Raises == "(raises)"

\* web_agent.process never raises; it returns a text
WebContents == {<<"(web answer)">>}

\* the title the LLM generates, or the fallback of generate_title
GenTitles == {<<"T">>, S_GeneratedContent}

\* what llm.apredict does inside AnnouncementAgent.generate_title: it answers
\* a text or raises
TitleAnswers == {[raises |-> FALSE, text |-> <<" ", "T">>], [raises |-> TRUE]}

\* a generate_title whose except clause returns no title
GenerateTitle_NoFallback(a) ==
    IF a.raises THEN <<>> ELSE strip(a.text)

\* AnnouncementAgent.generate_title: title.strip(), the fallback on any error
GenerateTitle(a) ==
    IF a.raises THEN S_GeneratedContent ELSE strip(a.text)

\* list_courses: [] on any error
Course1 == [id |-> <<"1">>, name |-> <<"C", "S", " ", "1", "0", "1">>]
CourseLists == {<<>>, <<Course1>>}

ExecOutcomes == {"ok", "error"}

ProcessOracles ==
    [courses : CourseLists, exec : ExecOutcomes, gen_title : GenTitles,
     questions : {FallbackQuestions, PromptedQuestions}]

(***************************************************************************)
(* The supervisor (CanvasGPTSupervisor).                                   *)
(***************************************************************************)
EmptyDict == [x \in {} |-> x]

\* dict[k] = v
Put(d, k, v) == [x \in DOMAIN d \cup {k} |-> IF x = k THEN v ELSE d[x]]

\* dict.get(k, default)
Get(d, k, default) == IF k \in DOMAIN d THEN d[k] ELSE default

NoRequest == [op |-> "__init__"]

\* the process_message coroutines a session may have started and not finished
Tasks == 1..NumTasks

\* a coroutine that has not been started: pc is the await it is suspended at,
\* kind and p the pending action it confirms, invoked the payload it called
\* the executor with, fetches the _fetch_url tasks it has running, tr the
\* collaborator calls it has made
Idle == [pc |-> "idle", message |-> <<>>, kind |-> "none", p |-> None,
         invoked |-> None, fetches |-> 0, tr |-> <<>>]

Init ==
    /\ canvas_agent \in BOOLEAN
    /\ pending_quiz = None
    /\ pending_announcement = None
    /\ pending_assignment = None
    /\ pending_page = None
    /\ messages = <<>>
    /\ context = EmptyDict
    /\ request = NoRequest
    /\ result = None
    /\ trace = <<>>
    /\ appended = <<>>
    /\ tasks = [t \in Tasks |-> Idle]
    /\ served = 0

\* the end of a call: what it returns (reply), the calls it made (tr), the
\* pending slots, the log and the context it leaves
Return(reply, tr, pq, pa, pas, pp, msgs, ctx) ==
    /\ result' = reply
    /\ trace' = tr
    /\ pending_quiz' = pq
    /\ pending_announcement' = pa
    /\ pending_assignment' = pas
    /\ pending_page' = pp
    /\ messages' = msgs
    /\ context' = ctx
    /\ served' = served + 1
    /\ UNCHANGED canvas_agent

\* a handler's end that puts the response in front of the log
Respond_Prepends(reply, tr, pq, pa, pas, pp, k) ==
    Return(reply, tr, pq, pa, pas, pp,
           IF k.logged
           THEN <<Message(reply.response, "assistant", [agent |-> k.route])>> \o k.msgs
           ELSE k.msgs,
           k.ctx)

\* the end of a route handler inside process_message: k is the call so far
\* (msgs, ctx, tr, route, logged); the response is stored in the log unless
\* the handler was reached through the file-upload dispatch, which returns it
\* directly
Respond(reply, tr, pq, pa, pas, pp, k) ==
    Return(reply, tr, pq, pa, pas, pp,
           IF k.logged
           THEN Append(k.msgs, Message(reply.response, "assistant", [agent |-> k.route]))
           ELSE k.msgs,
           k.ctx)

\* the except clause of process_message
ErrorReply(e) ==
    [error |-> <<"Error processing message: ">> \o e,
     response |-> <<"Error processing message: ">> \o e,
     agent |-> "error", conversation_id |-> "id(self.state)"]

\* content[:500] of the quiz summary
SummaryLength == 500

\* CanvasGPTSupervisor._handle_quiz_request.  The context argument only
\* reaches the web agent, whose answer is any of WebContents.
HandleQuizRequest(message, k) ==
    IF ~canvas_agent
    THEN Respond(Reply(R_NotConfigured, "canvas_quiz"), k.tr,
                 pending_quiz, pending_announcement, pending_assignment, pending_page, k)
    ELSE IF ~HasCourse(message)
    THEN Respond(Reply(R_NoCourse, "canvas_quiz"), k.tr,
                 pending_quiz, pending_announcement, pending_assignment, pending_page, k)
    ELSE
    LET course_name == CourseName(message)
        title == IF ExtractTitle(message) # <<>> THEN ExtractTitle(message) ELSE S_Quiz
        response(content) ==
            <<"I've prepared the quiz for ">> \o course_name \o <<":">> \o NL \o NL
            \o <<"Title: ">> \o title \o NL \o NL
            \o <<"Content Summary:">> \o NL \o prefix(content, SummaryLength) \o <<"...">>
            \o NL \o NL \o Q_Quiz
        staged(content) ==
            [course_name |-> course_name, content |-> content, title |-> title]
    IN  IF IsStructuredQuiz(message)
        THEN Respond(Reply(response(StructuredQuizContent(message)), "canvas_quiz"), k.tr,
                     staged(StructuredQuizContent(message)),
                     pending_announcement, pending_assignment, pending_page, k)
        ELSE \E w \in WebContents :
                Respond(Reply(response(w), "canvas_quiz"),
                        k.tr \o <<[op |-> "web_agent.process"]>>,
                        staged(w), pending_announcement, pending_assignment, pending_page, k)

\* CanvasGPTSupervisor._handle_post_request.  content is
\* [dict |-> FALSE, str] or [dict |-> TRUE, text, file_content, filename].
HandlePostRequest(message, content, k) ==
    IF ~canvas_agent
    THEN Respond(Reply(R_NotConfigured, "canvas_post"), k.tr,
                 pending_quiz, pending_announcement, pending_assignment, pending_page, k)
    ELSE IF ~HasCourse(message)
    THEN Respond(Reply(R_NoCourse, "canvas_post"), k.tr,
                 pending_quiz, pending_announcement, pending_assignment, pending_page, k)
    ELSE
    LET course_name == CourseName(message)
        with_file == content.dict /\ content.file_content # ""
        text == IF with_file THEN content.text
                ELSE IF content.dict THEN <<"(str of the dict)">> ELSE content.str
        staged(title) ==
            IF with_file
            THEN [course_name |-> course_name, content |-> text, title |-> title,
                  file_content |-> content.file_content, filename |-> content.filename]
            ELSE [course_name |-> course_name, content |-> text, title |-> title]
        response(title) ==
            <<"Here's the announcement for ">> \o course_name \o <<":">> \o NL \o NL
            \o <<"Title: ">> \o title \o NL \o NL \o text \o NL \o NL
            \o (IF with_file
                THEN <<"File to be uploaded: ">> \o content.filename \o NL \o NL
                ELSE <<>>)
            \o Q_Announcement
    IN  IF ExtractTitle(message) # <<>>
        THEN Respond(Reply(response(ExtractTitle(message)), "canvas_post"), k.tr,
                     pending_quiz, staged(ExtractTitle(message)),
                     pending_assignment, pending_page, k)
        ELSE \E a \in TitleAnswers : \E g \in {GenerateTitle(a)} :
                Respond(Reply(response(g), "canvas_post"),
                        k.tr \o <<[op |-> "generate_title", raised |-> a.raises]>>,
                        pending_quiz, staged(g), pending_assignment, pending_page, k)

\* CanvasGPTSupervisor._handle_assignment_request
HandleAssignmentRequest(message, content, k) ==
    IF ~canvas_agent
    THEN Respond(Reply(R_NotConfigured, "canvas_assignment"), k.tr,
                 pending_quiz, pending_announcement, pending_assignment, pending_page, k)
    ELSE IF ~HasCourse(message)
    THEN Respond(Reply(R_NoCourse, "canvas_assignment"), k.tr,
                 pending_quiz, pending_announcement, pending_assignment, pending_page, k)
    ELSE IF ~HasAssignmentMarker(message)
    THEN Respond(Reply(R_NoAssignmentContent, "canvas_assignment"), k.tr,
                 pending_quiz, pending_announcement, pending_assignment, pending_page, k)
    ELSE
    LET course_name == CourseName(message)
        title == IF ExtractTitle(message) # <<>> THEN ExtractTitle(message)
                 ELSE <<"A", "s", "s", "i", "g", "n", "m", "e", "n", "t">>
        points == ExtractPoints(message)
        submission_types == ExtractSubmissionTypes(message)
        with_file == content.dict /\ content.file_content # ""
        staged ==
            IF with_file
            THEN [course_name |-> course_name, content |-> AssignmentContent(message),
                  title |-> title, points |-> points,
                  submission_types |-> submission_types,
                  file_content |-> content.file_content, file_name |-> content.filename]
            ELSE [course_name |-> course_name, content |-> AssignmentContent(message),
                  title |-> title, points |-> points,
                  submission_types |-> submission_types]
        response ==
            <<"I've prepared the assignment for ">> \o course_name \o <<":">> \o NL
            \o <<"Title: ">> \o title \o NL
            \o <<"Points: ", ToString(points)>> \o NL
            \o <<"Submission Types: ">> \o submission_types \o NL
            \o (IF with_file
                THEN <<"File to be attached: ">> \o content.filename \o NL
                ELSE <<>>)
            \o NL \o Q_Assignment
    IN  Respond(Reply(response, "canvas_assignment"), k.tr,
                pending_quiz, pending_announcement, staged, pending_page, k)

\* CanvasGPTSupervisor._handle_list_request
HandleListRequest(k) ==
    IF ~canvas_agent
    THEN Respond(Reply(R_NotConfigured, "canvas_list"), k.tr,
                 pending_quiz, pending_announcement, pending_assignment, pending_page, k)
    ELSE \E courses \in CourseLists :
            Respond(Reply(IF courses # <<>>
                          THEN <<"Available courses:">> \o NL \o <<"(course list)">>
                          ELSE R_NoCourses, "canvas_list"),
                    k.tr \o <<[op |-> "list_courses"]>>,
                    pending_quiz, pending_announcement, pending_assignment, pending_page, k)

\* CanvasGPTSupervisor._handle_web_search
HandleWebSearch(k) ==
    \E w \in WebContents :
        Respond(Reply(w, "web_search"), k.tr \o <<[op |-> "web_agent.process"]>>,
                pending_quiz, pending_announcement, pending_assignment, pending_page, k)

\* a process_message without the outer except clause: the exception leaves
\* the call
Raise_Propagates(e, tr, k) ==
    Return([exception |-> e], tr,
           pending_quiz, pending_announcement, pending_assignment, pending_page,
           k.msgs, k.ctx)

\* the handler raised: the except clause of process_message answers
Raise(e, tr, k) ==
    Return(ErrorReply(e), tr,
           pending_quiz, pending_announcement, pending_assignment, pending_page,
           k.msgs, k.ctx)

\* CanvasGPTSupervisor._handle_general_request: llm.apredict answers or raises
HandleGeneralRequest(k) ==
    \/ Respond(Reply(<<"(llm answer)">>, "general"), k.tr \o <<[op |-> "llm.apredict"]>>,
               pending_quiz, pending_announcement, pending_assignment, pending_page, k)
    \/ Raise(<<"(llm error)">>, k.tr \o <<[op |-> "llm.apredict"]>>, k)

\* f"title: {title}\nquiz for [{course_name}]"
QuizMessage(p) ==
    <<"t", "i", "t", "l", "e", ":", " ">> \o p.title \o NL \o <<"q", "u", "i", "z", " ", "f", "o", "r", " ", "[">> \o p.course_name \o <<"]">>

\* f"title: {title}\nannouncement for [{course_name}]"
AnnouncementMessage(p) ==
    <<"t", "i", "t", "l", "e", ":", " ">> \o p.title \o NL \o <<"a", "n", "n", "o", "u", "n", "c", "e", "m", "e", "n", "t", " ", "f", "o", "r", " ", "[">> \o p.course_name \o <<"]">>

\* f"page for [{course_name}] title: {title}"
PageMessage(p) ==
    <<"p", "a", "g", "e", " ", "f", "o", "r", " ", "[">> \o p.course_name \o <<"]", " ", "t", "i", "t", "l", "e", ":", " ">> \o p.title

\* _handle_quiz_confirmation from the call of canvas_agent.process on: p is
\* the pending quiz as read before the await (course_name, content, title are
\* locals of the handler)
QuizConfirmed(p, msgs) ==
    \E o \in ProcessOracles :
    \E r \in {Process([dict |-> FALSE, str |-> p.content], QuizMessage(p), o)} :
        Return(Reply(IF r.res.success
                     THEN <<"Successfully created quiz in ">> \o p.course_name \o <<"!">>
                     ELSE <<"Failed to create quiz: ">> \o r.res.message,
                     "canvas_quiz"), r.trace,
               None, pending_announcement, pending_assignment, pending_page,
               msgs, context)

\* CanvasGPTSupervisor._handle_quiz_confirmation; it returns without storing
\* the response in the log
HandleQuizConfirmation(msgs) ==
    IF ~canvas_agent
    THEN Return(Reply(R_NotConfigured, "canvas_quiz"), <<>>,
                pending_quiz, pending_announcement, pending_assignment, pending_page,
                msgs, context)
    ELSE QuizConfirmed(pending_quiz, msgs)

\* _handle_announcement_confirmation from the call of canvas_agent.process
\* on: p is the pending announcement as read before the await
AnnouncementConfirmed(p, msgs) ==
    \E o \in ProcessOracles :
    \E r \in {Process(IF "file_content" \in DOMAIN p
                      THEN [dict |-> TRUE, text |-> p.content,
                            file_content |-> p.file_content,
                            filename |-> p.filename]
                      ELSE [dict |-> FALSE, str |-> p.content],
                      AnnouncementMessage(p), o)} :
        Return(Reply(IF r.res.success
                     THEN <<"Successfully posted announcement">>
                          \o (IF "file_content" \in DOMAIN p
                              THEN <<" with file attachment">> ELSE <<>>)
                          \o <<" to ">> \o p.course_name \o <<"!">>
                     ELSE <<"Failed to post announcement: ">> \o r.res.message,
                     "canvas_post"), r.trace,
               pending_quiz, None, pending_assignment, pending_page,
               msgs, context)

\* CanvasGPTSupervisor._handle_announcement_confirmation
HandleAnnouncementConfirmation(msgs) ==
    IF ~canvas_agent
    THEN Return(Reply(R_NotConfigured, "canvas_post"), <<>>,
                pending_quiz, pending_announcement, pending_assignment, pending_page,
                msgs, context)
    ELSE AnnouncementConfirmed(pending_announcement, msgs)

\* CanvasGPTSupervisor._handle_assignment_confirmation
HandleAssignmentConfirmation(msgs) ==
    IF ~canvas_agent
    THEN Return(Reply(R_NotConfigured, "canvas_assignment"), <<>>,
                pending_quiz, pending_announcement, pending_assignment, pending_page,
                msgs, context)
    ELSE \E courses \in CourseLists, exec \in ExecOutcomes :
            LET p == pending_assignment
                course_id == GetCourseId(courses, p.course_name)
                listed == <<[op |-> "list_courses"]>>
                call == Call("create_assignment", course_id, p.title, p.content)
            IN  IF course_id = <<>>
                THEN \* returns with the assignment still pending
                     Return(Reply(<<"Could not find course: ">> \o p.course_name,
                                  "canvas_assignment"), listed,
                            pending_quiz, pending_announcement, pending_assignment,
                            pending_page, msgs, context)
                ELSE IF "file_content" \in DOMAIN p
                THEN \* assignment_agent has no process_file_and_create_assignment:
                     \* AttributeError, answered by the except clause of the handler
                     Return([response |-> <<"Error creating assignment: ",
                                            "(AttributeError)">>,
                             agent |-> "canvas_assignment",
                             conversation_id |-> "id(self.state)",
                             success |-> FALSE], listed,
                            pending_quiz, pending_announcement, pending_assignment,
                            pending_page, msgs, context)
                ELSE Return([response |->
                                IF exec = "error"
                                THEN <<"Failed to create assignment: ", "(api error)">>
                                ELSE <<"Successfully created assignment in ">>
                                     \o p.course_name \o <<"!">>,
                             agent |-> "canvas_assignment",
                             conversation_id |-> "id(self.state)",
                             success |-> exec # "error"], listed \o <<call>>,
                            pending_quiz, pending_announcement, None, pending_page,
                            msgs, context)

\* CanvasGPTSupervisor._handle_page_confirmation
HandlePageConfirmation(msgs) ==
    IF ~canvas_agent
    THEN Return(Reply(R_NotConfigured, "canvas_page"), <<>>,
                pending_quiz, pending_announcement, pending_assignment, pending_page,
                msgs, context)
    ELSE \E o \in ProcessOracles :
         \E r \in {Process([dict |-> FALSE, str |-> pending_page.content],
                           PageMessage(pending_page), o)} :
            Return(Reply(IF r.res.success
                         THEN <<"Successfully created page in ">>
                              \o pending_page.course_name \o <<"!">>
                         ELSE <<"Failed to create page: ">> \o r.res.message,
                         "canvas_page"), r.trace,
                   pending_quiz, pending_announcement, pending_assignment, None,
                   msgs, context)

\* _handle_cancellation without the reset of pending_announcement
HandleCancellation_KeepsAnnouncement(msgs) ==
    IF Truthy(pending_quiz)
    THEN Return(Reply(R_QuizCancelled, "canvas_quiz"), <<>>,
                None, pending_announcement, pending_assignment, pending_page,
                msgs, context)
    ELSE IF Truthy(pending_announcement)
    THEN Return(Reply(R_AnnouncementCancelled, "canvas_post"), <<>>,
                pending_quiz, pending_announcement, pending_assignment, pending_page,
                msgs, context)
    ELSE IF Truthy(pending_assignment)
    THEN Return(Reply(R_AssignmentCancelled, "canvas_assignment"), <<>>,
                pending_quiz, pending_announcement, None, pending_page, msgs, context)
    ELSE IF Truthy(pending_page)
    THEN Return(Reply(R_PageCancelled, "canvas_page"), <<>>,
                pending_quiz, pending_announcement, pending_assignment, None,
                msgs, context)
    ELSE Return(Reply(R_NothingToCancel, "general"), <<>>,
                pending_quiz, pending_announcement, pending_assignment, pending_page,
                msgs, context)

\* CanvasGPTSupervisor._handle_cancellation
HandleCancellation(msgs) ==
    IF Truthy(pending_quiz)
    THEN Return(Reply(R_QuizCancelled, "canvas_quiz"), <<>>,
                None, pending_announcement, pending_assignment, pending_page,
                msgs, context)
    ELSE IF Truthy(pending_announcement)
    THEN Return(Reply(R_AnnouncementCancelled, "canvas_post"), <<>>,
                pending_quiz, None, pending_assignment, pending_page, msgs, context)
    ELSE IF Truthy(pending_assignment)
    THEN Return(Reply(R_AssignmentCancelled, "canvas_assignment"), <<>>,
                pending_quiz, pending_announcement, None, pending_page, msgs, context)
    ELSE IF Truthy(pending_page)
    THEN Return(Reply(R_PageCancelled, "canvas_page"), <<>>,
                pending_quiz, pending_announcement, pending_assignment, None,
                msgs, context)
    ELSE Return(Reply(R_NothingToCancel, "general"), <<>>,
                pending_quiz, pending_announcement, pending_assignment, pending_page,
                msgs, context)

\* the file-upload branch of _route_message: the post type it stores and returns
UploadPostType(message) ==
    IF \/ contains(lower(message), S_create_an_assignment)
       \/ contains(lower(message), S_post_assignment)
       \/ contains(lower(message), S_assignment_where)
    THEN "assignment"
    ELSE IF contains(lower(message), S_as_a_page) THEN "page"
    ELSE IF contains(lower(message), S_as_a_quiz) THEN "quiz"
    ELSE "announcement"

\* self.state.context after the file-upload branch of _route_message
UploadContext(message, ctx) ==
    IF HasAssignmentMarker(message)
    THEN Put(Put(ctx, "post_type", UploadPostType(message)),
             "assignment_text", AssignmentContent(message))
    ELSE Put(ctx, "post_type", UploadPostType(message))

\* _route_message decides without the LLM
IsUpload(message) == contains(lower(message), S_with_the_file_uploaded)

\* the dict process_message hands to a handler with an uploaded file
FileContent(text, fr) ==
    [dict |-> TRUE, text |-> text, file_content |-> fr.content,
     filename |-> fr.filename, file_type |-> fr.file_type]

\* process_message from "Handle different routes" on: the route is known, fr
\* is the processed file (None without a file)
Dispatch(message, file, fr, route, k) ==
    IF file # None
    THEN \E kf \in {[k EXCEPT !.logged = FALSE]} :
             IF route = "assignment"
             THEN \E content \in {FileContent(Get(k.ctx, "assignment_text", <<>>), fr)} :
                     HandleAssignmentRequest(message, content, kf)
             ELSE IF route = "page"
             THEN Raise(<<"(AttributeError: _handle_page_request)">>, k.tr, k)
             ELSE IF route = "quiz"
             THEN HandleQuizRequest(message, kf)
             ELSE \E content \in {FileContent(Get(k.ctx, "announcement_text",
                                                   <<"File uploaded">>), fr)} :
                     HandlePostRequest(message, content, kf)
    ELSE IF route = "canvas_quiz" THEN HandleQuizRequest(message, k)
    ELSE IF route = "canvas_post"
    THEN \E content \in {[dict |-> FALSE,
                           str |-> GetConversationContext(k.msgs, message)]} :
            HandlePostRequest(message, content, k)
    ELSE IF route = "canvas_list" THEN HandleListRequest(k)
    ELSE IF route = "canvas_assignment"
    THEN \E content \in {[dict |-> FALSE,
                           str |-> GetConversationContext(k.msgs, message)]} :
            HandleAssignmentRequest(message, content, k)
    ELSE IF route = "canvas_page"
    THEN \* the supervisor has no method _handle_page_request
         Raise(<<"(AttributeError: _handle_page_request)">>, k.tr, k)
    ELSE IF route = "web_search" THEN HandleWebSearch(k)
    ELSE HandleGeneralRequest(k)

\* process_message from "Route the message" on: _route_message answers the
\* post type of an upload without the LLM, else what the LLM answers
RouteAndDispatch(message, file, fr, msgs) ==
    \E answer \in IF IsUpload(message) THEN {UploadPostType(message)}
                   ELSE Labels \cup {Raises} :
        IF answer = Raises
        THEN Raise(<<"(llm error)">>, <<[op |-> "classify", answer |-> Raises]>>,
                   [msgs |-> msgs, ctx |-> context])
        ELSE \E k \in {[msgs |-> msgs,
                         ctx |-> IF IsUpload(message)
                                 THEN UploadContext(message, context) ELSE context,
                         tr |-> IF IsUpload(message) THEN <<>>
                                ELSE <<[op |-> "classify", answer |-> answer]>>,
                         route |-> answer, logged |-> TRUE]} :
                Dispatch(message, file, fr, answer, k)

\* CanvasGPTSupervisor.process_message(message, file_content); file is None or
\* [filename, readable, empty]
ProcessMessage(message, file) ==
    /\ request' = [op |-> "process_message", message |-> message, file |-> file]
    /\ UNCHANGED tasks
    /\ appended' = Append(messages,
                          Message(message, "user", [has_file |-> file # None]))
    /\ \E msgs0 \in {Append(messages,
                              Message(message, "user", [has_file |-> file # None]))},
          fr \in {IF file = None THEN None ELSE ProcessFile(file)} :
          IF file # None /\ ~fr.success
          THEN Return(Reply(<<"Error processing file: ">> \o fr.error,
                            "document_handler"), <<>>,
                      pending_quiz, pending_announcement, pending_assignment,
                      pending_page, msgs0, context)
          ELSE
          \E msgs1 \in {IF file = None THEN msgs0
                        ELSE [msgs0 EXCEPT ![Len(msgs0)].metadata =
                                 [has_file |-> TRUE,
                                  file_content |-> fr.content,
                                  file_type |-> fr.file_type,
                                  filename |-> fr.filename]]},
             lower_message \in {lower(message)} :
              IF IsAffirmative(lower_message) /\ Truthy(pending_quiz)
              THEN HandleQuizConfirmation(msgs1)
              ELSE IF IsAffirmative(lower_message) /\ Truthy(pending_announcement)
              THEN HandleAnnouncementConfirmation(msgs1)
              ELSE IF IsAffirmative(lower_message) /\ Truthy(pending_assignment)
              THEN HandleAssignmentConfirmation(msgs1)
              ELSE IF IsAffirmative(lower_message) /\ Truthy(pending_page)
              THEN HandlePageConfirmation(msgs1)
              ELSE IF ~IsAffirmative(lower_message) /\ IsNegative(lower_message)
              THEN HandleCancellation(msgs1)
              ELSE RouteAndDispatch(message, file, fr, msgs1)

\* a reset_state without the line that clears the pending announcement
ResetState_KeepsAnnouncement ==
    /\ request' = [op |-> "reset_state"]
    /\ result' = None
    /\ trace' = <<>>
    /\ appended' = <<>>
    /\ messages' = <<>>
    /\ context' = EmptyDict
    /\ pending_quiz' = None
    /\ pending_assignment' = None
    /\ pending_page' = None
    /\ UNCHANGED <<canvas_agent, served, tasks, pending_announcement>>

\* CanvasGPTSupervisor.reset_state
ResetState ==
    /\ request' = [op |-> "reset_state"]
    /\ result' = None
    /\ trace' = <<>>
    /\ appended' = <<>>
    /\ messages' = <<>>
    /\ context' = EmptyDict
    /\ pending_announcement' = None
    /\ pending_quiz' = None
    /\ pending_assignment' = None
    /\ pending_page' = None
    /\ UNCHANGED <<canvas_agent, served, tasks>>

(***************************************************************************)
(* The requests of the model.                                              *)
(***************************************************************************)
M_yes == <<"y", "e", "s">>
M_Yes == <<"Y", "e", "s">>
M_post_it == <<"P", "O", "S", "T", " ", "I", "T">>
M_no == <<"n", "o">>
M_Cancel == <<"C", "a", "n", "c", "e", "l">>
M_yes_please == <<"y", "e", "s", " ", "p", "l", "e", "a", "s", "e">>
M_post_something == <<"p", "o", "s", "t", " ", "s", "o", "m", "e", "t", "h", "i", "n", "g">>
M_quiz == <<"q", "u", "i", "z", " ", "[", "C", "S", "]", " ", "x">>
M_titled == <<"[", "C", "S", "]", " ", "t", "i", "t", "l", "e", ":", " ", "A", "s", "s", "i", "g", "n", "m", "e", "n", "t", ":", " ", "x">>
M_upload == <<"p", "o", "s", "t", " ", "a", "s", "s", "i", "g", "n", "m", "e", "n", "t", " ", "[", "C", "S", "]", " ", "w", "i", "t", "h", " ", "t", "h", "e", " ", "f", "i", "l", "e", " ", "u", "p", "l", "o", "a", "d", "e", "d", " ", "A", "s", "s", "i", "g", "n", "m", "e", "n", "t", ":", " ", "x">>

M_yes_padded == <<" ", "y", "e", "s", " ">>
M_no_newline == <<"n", "o", "\n">>
M_quiz_url == <<"c", "r", "e", "a", "t", "e", " ", "a", " ", "q", "u", "i", "z", " ", "[", "C", "S", "]", " ", "h", "t", "t", "p", ":", "/", "/", "a", ".", "b">>
M_page_assignment == <<"c", "r", "e", "a", "t", "e", " ", "a", "n", " ", "a", "s", "s", "i", "g", "n", "m", "e", "n", "t", " ", "a", "s", " ", "a", " ", "p", "a", "g", "e", " ", "[", "C", "S", "]", " ", "w", "i", "t", "h", " ", "t", "h", "e", " ", "f", "i", "l", "e", " ", "u", "p", "l", "o", "a", "d", "e", "d">>
M_title_url == <<"[", "C", "S", "]", " ", "t", "i", "t", "l", "e", ":", " ", "h", "t", "t", "p", ":", "/", "/", "a", ".", "b">>
M_points == <<"[", "C", "S", "]", " ", "p", "o", "i", "n", "t", "s", " ", "s", "h", "o", "u", "l", "d", " ", "b", "e", " ", "5", "0", " ", "A", "s", "s", "i", "g", "n", "m", "e", "n", "t", ":", " ", "x">>

Texts == {M_yes, M_Yes, M_post_it, M_no, M_Cancel, M_yes_please, M_post_something,
          M_quiz, M_titled, M_yes_padded, M_no_newline, M_quiz_url, M_title_url,
          M_points}

GoodFile == [filename |-> <<"h", "w", ".", "p", "d", "f">>, readable |-> TRUE, empty |-> FALSE]
BadFile == [filename |-> <<"n", "o", "t", "e", "s", ".", "t", "x", "t">>, readable |-> TRUE, empty |-> FALSE]

Inputs ==
    [message : Texts, file : {None}]
    \cup {[message |-> M_upload, file |-> GoodFile],
          [message |-> M_upload, file |-> None],
          [message |-> M_page_assignment, file |-> GoodFile],
          [message |-> M_quiz, file |-> GoodFile],
          [message |-> M_yes, file |-> BadFile]}

Next ==
    \/ served < MaxCalls /\ \E i \in Inputs : ProcessMessage(i.message, i.file)
    \/ ResetState

Spec == Init /\ [][Next]_vars

\* the requests that stage a quiz, an announcement or an assignment
StagingTexts == {M_quiz, M_titled}

\* a confirmation and a cancellation
ConcurrentTexts == {M_yes, M_no}

\* sessions of staging requests and cancellations only, one call longer
CancelTexts == {M_quiz, M_titled, M_no, M_Cancel}

NextCancel ==
    \/ served < MaxCancelCalls /\ \E m \in CancelTexts : ProcessMessage(m, None)
    \/ ResetState

SpecCancel == Init /\ [][NextCancel]_vars

\* the session is Empty and the last "no" was answered "Nothing to cancel."
Drained ==
    /\ request.op = "process_message"
    /\ lower(request.message) \in NegativeTokens
    /\ pending = <<None, None, None, None>>
    /\ result.response = R_NothingToCancel

\* a user who stages at most MaxDrainStaging actions and answers "no" until
\* told that nothing is left to cancel
SayNo == ~Drained /\ ProcessMessage(M_no, None)

NextDrain ==
    \/ served < MaxDrainStaging /\ \E m \in StagingTexts : ProcessMessage(m, None)
    \/ SayNo

SpecDrain == Init /\ [][NextDrain]_vars /\ WF_vars(SayNo)

\* attachments: one that is accepted and three that fail processing (an
\* unsupported extension, no extension, a file whose read() raises)
NoExtensionFile == [filename |-> <<"n", "o", "t", "e", "s">>, readable |-> TRUE, empty |-> FALSE]
UnreadableFile == [filename |-> <<"h", "w", ".", "p", "d", "f">>, readable |-> FALSE, empty |-> FALSE]
Files == {GoodFile, BadFile, NoExtensionFile, UnreadableFile}

\* sessions of staging requests and of tokens sent with an attachment
NextFile ==
    \/ served < MaxFileCalls /\ \E m \in StagingTexts : ProcessMessage(m, None)
    \/ served < MaxFileCalls
          /\ \E m \in ConcurrentTexts, f \in Files : ProcessMessage(m, f)

SpecFile == Init /\ [][NextFile]_vars

\* quiz requests for a course that is listed, for empty brackets and for a
\* course that is not listed
M_quiz_empty == <<"q", "u", "i", "z", " ", "[", "]", " ", "x">>
M_quiz_other == <<"q", "u", "i", "z", " ", "[", "Z", "Z", "]", " ", "x">>
ScopeTexts == {M_quiz, M_quiz_empty, M_quiz_other}

\* sessions of a quiz request and its confirmation
NextScope ==
    \/ served < MaxCalls /\ \E m \in ScopeTexts : ProcessMessage(m, None)
    \/ served < MaxCalls /\ ProcessMessage(M_yes, None)

SpecScope == Init /\ [][NextScope]_vars

(***************************************************************************)
(* The structured quiz on its own: CanvasPostAgent.handle_structured_quiz  *)
(* called with a content, with what create_quiz answers and with what each *)
(* call of add_question answers.                                           *)
(***************************************************************************)
QC_two == <<"1", ".", " ", "P", "?", " ", "A", ".", " ", "x", " ", "B", ".", " ", "y", " ", "(", "C", "o", "r", "r", "e", "c", "t", " ", "A", "n", "s", "w", "e", "r", ":", " ", "A", ")", " ", "2", ".", " ", "R", "?", " ", "A", ".", " ", "u", " ", "B", ".", " ", "v", " ", "(", "C", "o", "r", "r", "e", "c", "t", " ", "A", "n", "s", "w", "e", "r", ":", " ", "B", ")">>
QC_three == <<"1", ".", " ", "P", "?", " ", "A", ".", " ", "x", " ", "B", ".", " ", "y", " ", "(", "C", "o", "r", "r", "e", "c", "t", " ", "A", "n", "s", "w", "e", "r", ":", " ", "B", ")", " ", "2", ".", " ", "R", "?", " ", "A", ".", " ", "u", " ", "B", ".", " ", "v", " ", "C", ".", " ", "w", " ", "(", "C", "o", "r", "r", "e", "c", "t", " ", "A", "n", "s", "w", "e", "r", ":", " ", "C", ")", " ", "3", ".", " ", "S", "?", " ", "A", ".", " ", "k", " ", "B", ".", " ", "m", " ", "(", "C", "o", "r", "r", "e", "c", "t", " ", "A", "n", "s", "w", "e", "r", ":", " ", "A", ")">>
QC_unmarked == <<"1", ".", " ", "P", "?", " ", "A", ".", " ", "x", " ", "B", ".", " ", "y", " ", "2", ".", " ", "R", "?", " ", "A", ".", " ", "u", " ", "B", ".", " ", "v", " ", "(", "C", "o", "r", "r", "e", "c", "t", " ", "A", "n", "s", "w", "e", "r", ":", " ", "B", ")">>
QC_none == <<"1", ".", " ", "P", "?", " ", "A", ".", " ", "x", " ", "B", ".", " ", "y">>
QC_absent == <<"1", ".", " ", "P", "?", " ", "A", ".", " ", "x", " ", "B", ".", " ", "y", " ", "(", "C", "o", "r", "r", "e", "c", "t", " ", "A", "n", "s", "w", "e", "r", ":", " ", "C", ")">>
QC_capital == <<"1", ".", " ", "P", "?", " ", "A", ".", " ", "A", "x", " ", "B", ".", "B", "y", " ", "(", "C", "o", "r", "r", "e", "c", "t", " ", "A", "n", "s", "w", "e", "r", ":", " ", "B", ")">>
QuizContents == {QC_two, QC_three, QC_unmarked, QC_none, QC_absent, QC_capital}

CourseIds == {<<"1">>, <<"2">>}
QuizTitles == {S_Quiz, <<"T">>}

\* handle_structured_quiz(course_id, title, content); adds[i] is the answer of
\* the i-th call of quiz_agent.add_question
CallHandleStructuredQuiz(course_id, title, content, exec, adds) ==
    /\ DOMAIN adds = 1..Len(ParseStructuredQuiz(content))
    /\ \E r \in {HandleStructuredQuiz(course_id, title, content, exec)} :
          /\ request' = [op |-> "handle_structured_quiz", course_id |-> course_id,
                         title |-> title, content |-> content]
          /\ result' = IF r.res.success
                       THEN [success |-> TRUE, message |-> r.res.message,
                             quiz_id |-> "(id)",
                             question_count |-> Len(ParseStructuredQuiz(content))]
                       ELSE r.res
          /\ trace' = [i \in 1..Len(r.trace) |->
                          IF r.trace[i].op = "add_question"
                          THEN [op |-> "add_question", course_id |-> course_id,
                                answer |-> adds[i - 1]]
                          ELSE r.trace[i]]
    /\ UNCHANGED <<canvas_agent, pending, messages, context, appended, tasks, served>>

\* parse_structured_quiz(content)
CallParseStructuredQuiz(content) ==
    /\ request' = [op |-> "parse_structured_quiz", content |-> content]
    /\ result' = [questions |-> ParseStructuredQuiz(content)]
    /\ UNCHANGED <<canvas_agent, pending, messages, context, trace, appended, tasks,
                   served>>

\* one call on a fresh agent
NextQuiz ==
    \/ /\ request = NoRequest
       /\ \E course_id \in CourseIds, title \in QuizTitles, content \in QuizContents,
             exec \in ExecOutcomes :
             \E adds \in [1..Len(ParseStructuredQuiz(content)) -> ExecOutcomes] :
                 CallHandleStructuredQuiz(course_id, title, content, exec, adds)
    \/ /\ request = NoRequest
       /\ \E content \in QuizContents : CallParseStructuredQuiz(content)

SpecQuiz == Init /\ [][NextQuiz]_vars

(***************************************************************************)
(* WebSearchAgent._fetch_url (web_agent.py) on its own: the coroutine is   *)
(* at the head of its loop (result.pc = "loop", with the number of the     *)
(* attempt) or has returned; trace holds the requests it has sent.         *)
(***************************************************************************)
\* the default of the parameter retries
DefaultRetries == 3

\* what a request may end in: a page, a page whose text cannot be read, a
\* 200 of another content type, another status, a 429 with and without a
\* number in Retry-After, a timeout, an error of the connection
Responses == {"html", "html_unreadable", "other_type", "status", "rate_limit",
              "rate_limit_date", "timeout", "error"}

\* what _clean_html returns for the page
CleanedText == [text |-> <<"(cleaned text)">>]

\* _fetch_url(url, retries) up to the head of its loop
CallFetchUrl(retries) ==
    /\ request = NoRequest
    /\ request' = [op |-> "_fetch_url", retries |-> retries]
    /\ result' = [pc |-> "loop", attempt |-> 0]
    /\ trace' = <<>>
    /\ UNCHANGED <<canvas_agent, pending, messages, context, appended, tasks, served>>

\* one turn of the loop with an exception propagated instead of caught
FetchAttempt_Propagates(response) ==
    /\ request.op = "_fetch_url"
    /\ result.pc = "loop"
    /\ result.attempt < request.retries
    /\ trace' = Append(trace, [op |-> "session.get", response |-> response])
    /\ result' = IF response = "html"
                 THEN [pc |-> "returned", value |-> CleanedText]
                 ELSE IF response \in {"other_type", "status"}
                 THEN [pc |-> "returned", value |-> None]
                 ELSE IF response = "error"
                 THEN [pc |-> "raised"]
                 ELSE [pc |-> "loop", attempt |-> result.attempt + 1]
    /\ UNCHANGED <<canvas_agent, pending, messages, context, request, appended, tasks,
                   served>>

\* one turn of the loop: the request is sent and answered; a page is cleaned
\* and returned, another content type or status returns None, and a 429, a
\* timeout and every exception (that of int() on a Retry-After that is no
\* number included) go on with the next attempt after a sleep
FetchAttempt(response) ==
    /\ request.op = "_fetch_url"
    /\ result.pc = "loop"
    /\ result.attempt < request.retries
    /\ trace' = Append(trace, [op |-> "session.get", response |-> response])
    /\ result' = IF response = "html"
                 THEN [pc |-> "returned", value |-> CleanedText]
                 ELSE IF response \in {"other_type", "status"}
                 THEN [pc |-> "returned", value |-> None]
                 ELSE [pc |-> "loop", attempt |-> result.attempt + 1]
    /\ UNCHANGED <<canvas_agent, pending, messages, context, request, appended, tasks,
                   served>>

\* range(retries) is used up: return None
FetchExhausted ==
    /\ request.op = "_fetch_url"
    /\ result.pc = "loop"
    /\ result.attempt >= request.retries
    /\ result' = [pc |-> "returned", value |-> None]
    /\ UNCHANGED <<canvas_agent, pending, messages, context, request, trace, appended,
                   tasks, served>>

NextFetch ==
    \/ \E retries \in 0..DefaultRetries : CallFetchUrl(retries)
    \/ \E response \in Responses : FetchAttempt(response)
    \/ FetchExhausted

\* every request ends (ClientTimeout(total=20)) and every sleep ends
SpecFetch == Init /\ [][NextFetch]_vars /\ WF_vars(NextFetch)

(***************************************************************************)
(* _get_conversation_context on its own: the log grows by any message and  *)
(* the function is applied to it.                                          *)
(***************************************************************************)
MaxLog == 7

LogContents == {<<"a">>, <<"b">>}

\* self.state.messages.append(Message(...)) of a user or an assistant message
AppendMessage(content, role) ==
    /\ Len(messages) < MaxLog
    /\ messages' = Append(messages,
                          Message(content, role,
                                  IF role = "user" THEN [has_file |-> FALSE]
                                  ELSE [agent |-> "general"]))
    /\ request' = [op |-> "messages.append"]
    /\ result' = None
    /\ UNCHANGED <<canvas_agent, pending, context, trace, appended, tasks, served>>

\* self._get_conversation_context(current_message)
CallGetConversationContext(current_message) ==
    /\ request' = [op |-> "_get_conversation_context",
                   current_message |-> current_message]
    /\ result' = [context |-> GetConversationContext(messages, current_message)]
    /\ UNCHANGED <<canvas_agent, pending, messages, context, trace, appended, tasks, served>>

NextContext ==
    \/ \E content \in LogContents, role \in {"user", "assistant"} :
           AppendMessage(content, role)
    \/ \E current_message \in LogContents : CallGetConversationContext(current_message)

SpecContext == Init /\ [][NextContext]_vars

(***************************************************************************)
(* process_message as a coroutine: a call runs from one await to the next  *)
(* in one step, and the calls of a session that are suspended at an await  *)
(* interleave.  Nothing in CanvasGPTSupervisor serialises its calls.       *)
(***************************************************************************)

\* the coroutine t suspends at an await: rec is its state there, msgs the log
Await(t, rec, msgs) ==
    /\ messages' = msgs
    /\ tasks' = [tasks EXCEPT ![t] = rec]
    /\ UNCHANGED <<canvas_agent, pending, context, result, trace, served>>

\* the coroutine t returns
Finish(t) == tasks' = [tasks EXCEPT ![t].pc = "done"]

\* what a route handler is handed when the coroutine t resumes
Resumed(t) ==
    [msgs |-> messages, ctx |-> context, tr |-> tasks[t].tr,
     route |-> tasks[t].kind, logged |-> TRUE]

\* process_message(message) up to its first await or, when there is none, to
\* its return: the user message is appended, the tokens are tested and a
\* confirmation handler runs up to its collaborator call
Start(t, message) ==
    /\ tasks[t].pc = "idle"
    /\ \A u \in Tasks : u < t => tasks[u].pc # "idle"
    /\ request' = [op |-> "process_message", message |-> message, file |-> None]
    /\ appended' = Append(messages, Message(message, "user", [has_file |-> FALSE]))
    /\ \E msgs0 \in {Append(messages, Message(message, "user", [has_file |-> FALSE]))},
          lower_message \in {lower(message)},
          me \in {[Idle EXCEPT !.message = message]} :
          IF IsAffirmative(lower_message) /\ Truthy(pending_quiz)
          THEN IF canvas_agent
               THEN Await(t, [me EXCEPT !.pc = "executor", !.kind = "quiz",
                                        !.p = pending_quiz, !.invoked = pending_quiz],
                          msgs0)
               ELSE HandleQuizConfirmation(msgs0) /\ Finish(t)
          ELSE IF IsAffirmative(lower_message) /\ Truthy(pending_announcement)
          THEN IF canvas_agent
               THEN Await(t, [me EXCEPT !.pc = "executor", !.kind = "announcement",
                                        !.p = pending_announcement,
                                        !.invoked = pending_announcement],
                          msgs0)
               ELSE HandleAnnouncementConfirmation(msgs0) /\ Finish(t)
          ELSE IF IsAffirmative(lower_message) /\ Truthy(pending_assignment)
          THEN IF canvas_agent
               THEN Await(t, [me EXCEPT !.pc = "directory", !.kind = "assignment",
                                        !.p = pending_assignment],
                          msgs0)
               ELSE HandleAssignmentConfirmation(msgs0) /\ Finish(t)
          ELSE IF IsAffirmative(lower_message) /\ Truthy(pending_page)
          THEN HandlePageConfirmation(msgs0) /\ Finish(t)
          ELSE IF ~IsAffirmative(lower_message) /\ IsNegative(lower_message)
          THEN HandleCancellation(msgs0) /\ Finish(t)
          ELSE Await(t, [me EXCEPT !.pc = "classify"], msgs0)

\* the reply of an except clause of _handle_assignment_confirmation
AssignmentError(e) ==
    [response |-> <<"Error creating assignment: ">> \o e, agent |-> "canvas_assignment",
     conversation_id |-> "id(self.state)", success |-> FALSE]

\* _handle_assignment_confirmation resumes after get_course_id: it reads
\* self.pending_assignment again, which another call may have reset to None
DirectoryReturns(t) ==
    /\ tasks[t].pc = "directory"
    /\ UNCHANGED <<request, appended>>
    /\ \E courses \in CourseLists :
       \E course_id \in {GetCourseId(courses, tasks[t].p.course_name)},
          listed \in {<<[op |-> "list_courses"]>>} :
          IF pending_assignment = None
          THEN /\ Return(AssignmentError(<<"(TypeError: 'NoneType')">>), listed,
                         pending_quiz, pending_announcement, pending_assignment,
                         pending_page, messages, context)
               /\ Finish(t)
          ELSE IF course_id = <<>>
          THEN /\ Return(Reply(<<"Could not find course: ">>
                               \o pending_assignment.course_name, "canvas_assignment"),
                         listed, pending_quiz, pending_announcement,
                         pending_assignment, pending_page, messages, context)
               /\ Finish(t)
          ELSE IF "file_content" \in DOMAIN pending_assignment
          THEN /\ Return(AssignmentError(<<"(AttributeError)">>), listed,
                         pending_quiz, pending_announcement, pending_assignment,
                         pending_page, messages, context)
               /\ Finish(t)
          ELSE Await(t, [tasks[t] EXCEPT
                            !.pc = "executor",
                            !.invoked = pending_assignment,
                            !.tr = listed \o <<Call("create_assignment", course_id,
                                                    pending_assignment.title,
                                                    pending_assignment.content)>>],
                     messages)

\* _handle_assignment_confirmation resumes after create_assignment
AssignmentCreated(t) ==
    \E exec \in ExecOutcomes :
        IF exec = "error"
        THEN Return([response |-> <<"Failed to create assignment: ", "(api error)">>,
                     agent |-> "canvas_assignment",
                     conversation_id |-> "id(self.state)", success |-> FALSE],
                    tasks[t].tr, pending_quiz, pending_announcement, None,
                    pending_page, messages, context)
        ELSE IF pending_assignment = None
        THEN Return(AssignmentError(<<"(TypeError: 'NoneType')">>), tasks[t].tr,
                    pending_quiz, pending_announcement, pending_assignment,
                    pending_page, messages, context)
        ELSE Return([response |-> <<"Successfully created assignment in ">>
                                  \o pending_assignment.course_name \o <<"!">>,
                     agent |-> "canvas_assignment",
                     conversation_id |-> "id(self.state)", success |-> TRUE],
                    tasks[t].tr, pending_quiz, pending_announcement, None,
                    pending_page, messages, context)

\* a confirmation handler resumes after its executor call: it resets its slot
\* and returns
ExecutorReturns(t) ==
    /\ tasks[t].pc = "executor"
    /\ UNCHANGED <<request, appended>>
    /\ Finish(t)
    /\ IF tasks[t].kind = "quiz" THEN QuizConfirmed(tasks[t].p, messages)
       ELSE IF tasks[t].kind = "announcement"
       THEN AnnouncementConfirmed(tasks[t].p, messages)
       ELSE AssignmentCreated(t)

\* process_message resumes after _route_message and runs the handler of the
\* route up to its first await; the handlers of quiz, post and assignment
\* return before any await for a message without a course
ClassifyReturns(t, answer) ==
    /\ tasks[t].pc = "classify"
    /\ UNCHANGED <<request, appended>>
    /\ \E tr \in {<<[op |-> "classify", answer |-> answer]>>} :
          IF answer = Raises
          THEN /\ Raise(<<"(llm error)">>, tr, [msgs |-> messages, ctx |-> context])
               /\ Finish(t)
          ELSE IF answer = "web_search"
          THEN Await(t, [tasks[t] EXCEPT !.pc = "web_search", !.kind = answer, !.tr = tr],
                     messages)
          ELSE IF answer = "canvas_list" /\ canvas_agent
          THEN Await(t, [tasks[t] EXCEPT !.pc = "list_courses", !.kind = answer,
                                         !.tr = tr],
                     messages)
          ELSE IF answer \in {"general", "unknown"}
          THEN Await(t, [tasks[t] EXCEPT !.pc = "general_llm", !.kind = answer,
                                         !.tr = tr],
                     messages)
          ELSE /\ Dispatch(tasks[t].message, None, None, answer,
                           [msgs |-> messages, ctx |-> context, tr |-> tr,
                            route |-> answer, logged |-> TRUE])
               /\ Finish(t)

\* _handle_general_request resumes after llm.apredict
GeneralReturns(t) ==
    /\ tasks[t].pc = "general_llm"
    /\ UNCHANGED <<request, appended>>
    /\ HandleGeneralRequest(Resumed(t))
    /\ Finish(t)

\* _handle_list_request resumes after get_available_courses
ListReturns(t) ==
    /\ tasks[t].pc = "list_courses"
    /\ UNCHANGED <<request, appended>>
    /\ HandleListRequest(Resumed(t))
    /\ Finish(t)

\* WebSearchAgent._search_and_summarize resumes after the search: with no
\* result it asks the LLM, else it starts one _fetch_url task per result, all
\* at once (asyncio.create_task)
SearchReturns(t, n) ==
    /\ tasks[t].pc = "web_search"
    /\ UNCHANGED <<request, appended>>
    /\ Await(t, IF n = 0 THEN [tasks[t] EXCEPT !.pc = "web_llm"]
                ELSE [tasks[t] EXCEPT !.pc = "web_fetch", !.fetches = n],
             messages)

\* one of the running _fetch_url tasks ends; after the last one the LLM is
\* asked
FetchReturns(t) ==
    /\ tasks[t].pc = "web_fetch"
    /\ UNCHANGED <<request, appended>>
    /\ Await(t, IF tasks[t].fetches = 1
                THEN [tasks[t] EXCEPT !.pc = "web_llm", !.fetches = 0]
                ELSE [tasks[t] EXCEPT !.fetches = @ - 1],
             messages)

\* _handle_web_search resumes after web_agent.process
WebReturns(t) ==
    /\ tasks[t].pc = "web_llm"
    /\ UNCHANGED <<request, appended>>
    /\ HandleWebSearch(Resumed(t))
    /\ Finish(t)

NextConcurrent ==
    \/ /\ \A t \in Tasks : tasks[t].pc = "idle"
       /\ served < MaxStagingCalls
       /\ \E m \in StagingTexts : ProcessMessage(m, None)
    \/ \E t \in Tasks, m \in ConcurrentTexts : Start(t, m)
    \/ \E t \in Tasks, answer \in Labels \cup {Raises} : ClassifyReturns(t, answer)
    \/ \E t \in Tasks : DirectoryReturns(t)
    \/ \E t \in Tasks : ExecutorReturns(t)
    \/ \E t \in Tasks : GeneralReturns(t)
    \/ \E t \in Tasks : ListReturns(t)
    \/ \E t \in Tasks, n \in 0..MaxResults : SearchReturns(t, n)
    \/ \E t \in Tasks : FetchReturns(t)
    \/ \E t \in Tasks : WebReturns(t)

SpecConcurrent == Init /\ [][NextConcurrent]_vars

(***************************************************************************)
(* Vocabulary of the properties.                                           *)
(***************************************************************************)
Kinds == {"quiz", "announcement", "assignment", "page"}

\* the pending slot of a kind in a tuple <<quiz, announcement, assignment, page>>
SlotOf(slots, kind) ==
    CASE kind = "quiz" -> slots[1]
      [] kind = "announcement" -> slots[2]
      [] kind = "assignment" -> slots[3]
      [] kind = "page" -> slots[4]

\* the agent name the handlers of a kind answer with
AgentOf(kind) ==
    CASE kind = "quiz" -> "canvas_quiz"
      [] kind = "announcement" -> "canvas_post"
      [] kind = "assignment" -> "canvas_assignment"
      [] kind = "page" -> "canvas_page"

\* the operations of the Canvas API that create content
ExecutorOps == {"create_quiz", "add_question", "create_assignment",
                "create_announcement", "create_page"}

\* the operations that belong to a kind
OpsOf(kind) ==
    CASE kind = "quiz" -> {"create_quiz", "add_question"}
      [] kind = "announcement" -> {"create_announcement"}
      [] kind = "assignment" -> {"create_assignment"}
      [] kind = "page" -> {"create_page"}

ExecutorCalls(tr) == {i \in 1..Len(tr) : tr[i].op \in ExecutorOps}

\* the call asked the LLM to classify the message
Classified(tr) == \E i \in 1..Len(tr) : tr[i].op = "classify"

\* the label the classifier answered, "none" when it was not asked
Routed(tr) ==
    IF tr # <<>> /\ tr[1].op = "classify" THEN tr[1].answer ELSE "none"

PendingKinds(slots) == {k \in Kinds : Truthy(SlotOf(slots, k))}

\* the kind a confirmation acts on: the first slot set, in the order tested
FirstPending(slots) ==
    IF Truthy(slots[1]) THEN "quiz"
    ELSE IF Truthy(slots[2]) THEN "announcement"
    ELSE IF Truthy(slots[3]) THEN "assignment"
    ELSE "page"

CancelMessage(kind) ==
    CASE kind = "quiz" -> R_QuizCancelled
      [] kind = "announcement" -> R_AnnouncementCancelled
      [] kind = "assignment" -> R_AssignmentCancelled
      [] kind = "page" -> R_PageCancelled

\* a process_message call with a text and no file
TextCall(r) == r.op = "process_message" /\ r.file = None

AffirmativeCall(r) == TextCall(r) /\ lower(r.message) \in AffirmativeTokens
NegativeCall(r) == TextCall(r) /\ lower(r.message) \in NegativeTokens

\* the reply tells that the course was not found
NotFoundReply(r) ==
    \E i \in 1..Len(r.response) : r.response[i] = "Could not find course: "

\* the reply ends with the question to answer by yes or no
AsksYesNo(r) ==
    /\ r.response # <<>>
    /\ <<r.response[Len(r.response)]>> \in {Q_Quiz, Q_Announcement, Q_Assignment}

\* the reply of a successful execution
ReportsSuccess(r) ==
    \E i \in 1..Len(r.response) :
        r.response[i] \in {"Successfully created quiz in ",
                           "Successfully posted announcement",
                           "Successfully created assignment in ",
                           "Successfully created page in "}

(***************************************************************************)
(* C1.  After any sequence of process_message calls at most one of the     *)
(* pending quiz, announcement, assignment and page slots is set.           *)
(***************************************************************************)
C1_AtMostOnePending == Cardinality(PendingKinds(pending)) <= 1

(***************************************************************************)
(* C2.  When an action of a kind is pending and the user sends an          *)
(* affirmative token, that pending action is cleared when process_message  *)
(* returns, and a reported success comes with an executor call that        *)
(* carries the staged title.                                               *)
(***************************************************************************)
C2_ConfirmExecutesAndClears ==
    [][(AffirmativeCall(request') /\ PendingKinds(pending) # {})
       => /\ SlotOf(pending', FirstPending(pending)) = None
          /\ ReportsSuccess(result')
             => \E i \in ExecutorCalls(trace') :
                    /\ "title" \in DOMAIN trace'[i]
                    /\ trace'[i].title = SlotOf(pending, FirstPending(pending)).title]_vars

(***************************************************************************)
(* C3.  When an action is pending and the user sends a negative token, a   *)
(* pending action is cleared, the response is the cancellation message of  *)
(* the kind cleared, and no executor operation is called.                  *)
(***************************************************************************)
C3_CancelClears ==
    [][(NegativeCall(request') /\ PendingKinds(pending) # {})
       => /\ \E k \in PendingKinds(pending) :
                /\ SlotOf(pending', k) = None
                /\ result'.response = CancelMessage(k)
                /\ \A j \in Kinds \ {k} : SlotOf(pending', j) = SlotOf(pending, j)
          /\ trace' = <<>>]_vars

\* a pending announcement was cancelled
C3_Witness ==
    /\ NegativeCall(request)
    /\ result.response = R_AnnouncementCancelled
    /\ pending_announcement = None

(***************************************************************************)
(* C4.  With nothing pending, an affirmative or negative token gets the    *)
(* neutral answer of the general agent (no error, no request for a         *)
(* course), stages nothing and executes nothing.                           *)
(***************************************************************************)
C4_NothingToDo ==
    [][((AffirmativeCall(request') \/ NegativeCall(request'))
        /\ PendingKinds(pending) = {})
       => /\ result'.agent = "general"
          /\ "error" \notin DOMAIN result'
          /\ PendingKinds(pending') = {}
          /\ ExecutorCalls(trace') = {}]_vars

(***************************************************************************)
(* C5.  process_message never asks the classifier about a message that is *)
(* an affirmative or negative token.                                       *)
(***************************************************************************)
C5_TokensNotClassified ==
    (AffirmativeCall(request) \/ NegativeCall(request)) => ~Classified(trace)

(***************************************************************************)
(* C6.  When the course of a confirmed action is not found, no executor    *)
(* operation is called and the pending action of the kind that answered    *)
(* is cleared.                                                             *)
(***************************************************************************)
C6_NotFoundClears ==
    (AffirmativeCall(request) /\ NotFoundReply(result))
    => /\ ExecutorCalls(trace) = {}
       /\ \A k \in Kinds : result.agent = AgentOf(k) => SlotOf(pending, k) = None

(***************************************************************************)
(* C7.  The executor operations a confirmation runs are those of the kind  *)
(* that was pending.                                                       *)
(***************************************************************************)
C7_ExecutorMatchesKind ==
    (AffirmativeCall(request) /\ ~Classified(trace))
    => \A k \in Kinds :
          result.agent = AgentOf(k)
          => \A i \in ExecutorCalls(trace) : trace[i].op \in OpsOf(k)

(***************************************************************************)
(* C8.  A message without a bracketed course that is routed to post, quiz, *)
(* assignment or page is answered "Please specify a course name in square  *)
(* brackets..." and leaves every pending slot as it was.                   *)
(***************************************************************************)
C8_NoScopeIsError ==
    [][(/\ TextCall(request')
        /\ canvas_agent
        /\ lower(request'.message) \notin AffirmativeTokens \cup NegativeTokens
        /\ ~HasCourse(request'.message)
        /\ Routed(trace') \in {"canvas_post", "canvas_quiz", "canvas_assignment",
                               "canvas_page"})
       => /\ result'.response = R_NoCourse
          /\ pending' = pending]_vars

(***************************************************************************)
(* C9.  A request with a bracketed course and its markers that is routed   *)
(* to a kind ends with an action of that kind pending and a response that  *)
(* asks to reply yes or no; so for the page kind.                          *)
(***************************************************************************)
C9_RequestStages ==
    (/\ TextCall(request)
     /\ canvas_agent
     /\ HasCourse(request.message)
     /\ HasAssignmentMarker(request.message))
    => \A k \in Kinds :
          Routed(trace) = AgentOf(k)
          => Truthy(SlotOf(pending, k)) /\ AsksYesNo(result)

(***************************************************************************)
(* C10.  Tokens are matched on the whole message without regard to case:   *)
(* a message whose lower case is a token is answered without the           *)
(* classifier when an action is pending, and a message that is not a       *)
(* token, whatever it contains, leaves every pending action pending and    *)
(* runs no executor operation.                                             *)
(***************************************************************************)
C10_WholeMessageTokens ==
    [][/\ ((AffirmativeCall(request') \/ NegativeCall(request'))
           /\ PendingKinds(pending) # {})
          => (~Classified(trace') /\ result'.agent = AgentOf(FirstPending(pending)))
       /\ (/\ TextCall(request')
           /\ lower(request'.message) \notin AffirmativeTokens \cup NegativeTokens)
          => /\ PendingKinds(pending) \subseteq PendingKinds(pending')
             /\ ExecutorCalls(trace') = {}]_vars

\* "yes please" was sent while a quiz was pending, and it still is
C10_Witness ==
    /\ TextCall(request)
    /\ request.message = M_yes_please
    /\ Truthy(pending_quiz)

(***************************************************************************)
(* Vocabulary of the routing properties.                                   *)
(***************************************************************************)
\* the message holds a URL (http://, https:// or www.)
HasUrl(message) == \E p \in 1..Len(message) : UrlPrefixAt(message, p) # 0

\* a process_message call that got past the file handler
HandledCall(r) ==
    /\ r.op = "process_message"
    /\ r.file # None => ProcessFile(r.file).success

\* the message is no token, padded or not
NoToken(message) ==
    strip(lower(message)) \notin AffirmativeTokens \cup NegativeTokens

\* the general handler asked the LLM
GeneralRan(tr) == \E i \in 1..Len(tr) : tr[i].op = "llm.apredict"

(***************************************************************************)
(* C11.  A token with leading or trailing whitespace resolves the pending  *)
(* action as the bare token does: the call is answered by the handler of   *)
(* the pending kind, without the classifier.                               *)
(***************************************************************************)
C11_TrimmedTokens ==
    [][(/\ TextCall(request')
        /\ ~NoToken(request'.message)
        /\ PendingKinds(pending) # {})
       => /\ ~Classified(trace')
          /\ result'.agent = AgentOf(FirstPending(pending))]_vars

(***************************************************************************)
(* C12.  A message that holds a URL and the quiz marker is routed to the   *)
(* quiz handler, whatever the classifier answers.                          *)
(***************************************************************************)
C12_QuizBeforeUrl ==
    (/\ TextCall(request)
     /\ NoToken(request.message)
     /\ HasUrl(request.message)
     /\ contains(lower(request.message), S_quiz)
     /\ Routed(trace) # Raises)
    => result.agent = "canvas_quiz"

(***************************************************************************)
(* C13.  A message that holds "as a page" and an assignment marker is      *)
(* routed to page.                                                         *)
(***************************************************************************)
C13_PageBeforeAssignment ==
    (/\ HandledCall(request)
     /\ NoToken(request.message)
     /\ contains(lower(request.message), S_as_a_page)
     /\ contains(lower(request.message), S_create_an_assignment)
     /\ Routed(trace) # Raises)
    => IF IsUpload(request.message)
       THEN Get(context, "post_type", "none") = "page"
       ELSE Routed(trace) = "canvas_page"

(***************************************************************************)
(* C14.  When the classifier answers a string outside the label set, the   *)
(* general handler runs and no pending slot changes, with or without an    *)
(* attachment.                                                             *)
(***************************************************************************)
C14_UnknownIsGeneral ==
    [][(request'.op = "process_message" /\ Routed(trace') = "unknown")
       => (GeneralRan(trace') /\ pending' = pending)]_vars

(***************************************************************************)
(* C15.  When the classifier raises, the message is answered by the        *)
(* general handler and not by an error response.                           *)
(***************************************************************************)
C15_ClassifierFailureIsGeneral ==
    (request.op = "process_message" /\ Routed(trace) = Raises)
    => (GeneralRan(trace) /\ result.agent = "general" /\ "error" \notin DOMAIN result)

\* the agents a reply of process_message names
AgentNames == {"canvas_quiz", "canvas_post", "canvas_assignment", "canvas_page",
               "canvas_list", "web_search", "general", "document_handler", "error"}

C17_LogsBothMessages ==
    [][request'.op = "process_message"
        => /\ Len(messages') = Len(messages) + 2
           /\ messages'[Len(messages) + 1].role = "user"
           /\ messages'[Len(messages) + 1].content = request'.message
           /\ messages'[Len(messages) + 2].role = "assistant"
           /\ messages'[Len(messages) + 2].content = result'.response]_vars

\* C18: the log is append-only and its messages are immutable: a call of
\* process_message removes and reorders nothing, and the content, the role and
\* the metadata of a message are those it was appended with.
C18_Immutable ==
    [][request'.op = "process_message"
        => /\ Len(messages') > Len(messages)
           /\ \A i \in 1..Len(messages) : messages'[i] = messages[i]
           /\ messages'[Len(messages) + 1] = appended'[Len(messages) + 1]]_vars

\* C18 as the code has it: the log is append-only; the messages appended by
\* earlier calls are unchanged in content, role and metadata; the message a
\* call appends keeps its content and role, and its metadata may still be
\* extended until that call returns (the processed file is added to it).
C18_ImmutableAfterReturn ==
    [][request'.op = "process_message"
        => /\ Len(messages') > Len(messages)
           /\ \A i \in 1..Len(messages) : messages'[i] = messages[i]
           /\ messages'[Len(messages) + 1].content = appended'[Len(messages) + 1].content
           /\ messages'[Len(messages) + 1].role = appended'[Len(messages) + 1].role]_vars

\* a call with a processed attachment on a log that already held messages:
\* the metadata its user message was appended with has been extended
C18_Witness ==
    /\ request.op = "process_message"
    /\ request.file # None
    /\ Len(appended) >= 2
    /\ messages[Len(appended)].metadata # appended[Len(appended)].metadata

\* the line of the history one message is formatted as
HistoryLine(m) ==
    IF m.role = "user" THEN <<"User: ">> \o m.content ELSE <<"Assistant: ">> \o m.content

\* the lines of the messages i, i + 1, ... of the log, one per line
RECURSIVE HistoryFrom(_, _)
HistoryFrom(msgs, i) ==
    IF i > Len(msgs) THEN <<>>
    ELSE IF i = Len(msgs) THEN HistoryLine(msgs[i])
    ELSE HistoryLine(msgs[i]) \o NL \o HistoryFrom(msgs, i + 1)

\* C19: _get_conversation_context returns the empty string on an empty log
\* and otherwise a prompt whose history holds the formatted lines of the 5
\* most recent messages (of all of them when the log has fewer), in the order
\* of the log and of no other message, whatever the length of the log.
C19_LastFiveInOrder ==
    request.op = "_get_conversation_context"
        => IF messages = <<>> THEN result.context = <<>>
           ELSE result.context =
                    NL \o <<"        Previous conversation:">> \o NL \o <<"        ">>
                    \o HistoryFrom(messages,
                                   IF Len(messages) > 5 THEN Len(messages) - 4 ELSE 1)
                    \o NL \o NL \o <<"        Current message: ">>
                    \o request.current_message \o NL \o <<"        ">>

\* the function was applied to a log of more than 5 messages whose oldest
\* message differs from the oldest of the 5 most recent
C19_Witness ==
    /\ request.op = "_get_conversation_context"
    /\ Len(messages) > 5
    /\ messages[1].content # messages[Len(messages) - 4].content
    /\ messages[1].role # messages[Len(messages) - 4].role
    /\ result.context # <<>>

\* C20: for the first message of a fresh session (the log held no message
\* when the call began) the context process_message hands to the handler is
\* the empty string.  The announcement handler stages the context it is handed
\* as the content of the announcement.
C20_FirstContextEmpty ==
    (/\ TextCall(request)
     /\ Len(appended) = 1
     /\ Routed(trace) = "canvas_post"
     /\ Truthy(pending_announcement))
        => pending_announcement.content = <<>>

\* C21: after reset_state, from whatever state it is called in, the log is
\* empty, the context map is empty and no action of any kind is pending; an
\* affirmative token that follows the reset executes nothing.
C21_ResetClears ==
    [][/\ request'.op = "reset_state"
            => /\ messages' = <<>>
               /\ DOMAIN context' = {}
               /\ PendingKinds(pending') = {}
       /\ (request.op = "reset_state" /\ AffirmativeCall(request'))
            => ExecutorCalls(trace') = {}]_vars

\* an affirmative token was the first message after a reset that followed an
\* earlier call, and nothing was executed
C21_Witness ==
    /\ AffirmativeCall(request)
    /\ served = 2
    /\ Len(appended) = 1
    /\ ExecutorCalls(trace) = {}

\* the call is an assignment request: routed to canvas_assignment by the
\* classifier or, with a processed file, by the upload rule
AssignmentRequest(r, tr) ==
    /\ HandledCall(r)
    /\ IF r.file = None THEN Routed(tr) = "canvas_assignment"
       ELSE IsUpload(r.message) /\ UploadPostType(r.message) = "assignment"

\* C23: an assignment request with a bracketed course and without the marker
\* "Assignment:" is answered at once with the request to include the marker;
\* it stages nothing, runs nothing, and an assignment that was pending stays
\* pending as it was (Canvas configured).
C23_NoMarkerIsError ==
    [][(/\ AssignmentRequest(request', trace')
        /\ canvas_agent
        /\ HasCourse(request'.message)
        /\ ~contains(request'.message, S_Assignment))
       => /\ result'.response = R_NoAssignmentContent
          /\ result'.agent = "canvas_assignment"
          /\ pending' = pending
          /\ ExecutorCalls(trace') = {}]_vars

\* such a request was answered while an assignment was pending
C23_Witness ==
    /\ AssignmentRequest(request, trace)
    /\ canvas_agent
    /\ HasCourse(request.message)
    /\ ~contains(request.message, S_Assignment)
    /\ result.response = R_NoAssignmentContent
    /\ Truthy(pending_assignment)

\* the call is an announcement request that reached _handle_post_request
PostRequest(r, tr) ==
    /\ HandledCall(r)
    /\ IF r.file = None THEN Routed(tr) = "canvas_post"
       ELSE IF IsUpload(r.message) THEN UploadPostType(r.message) = "announcement"
       ELSE Routed(tr) \in Labels

GenerateCalls(tr) == {i \in 1..Len(tr) : tr[i].op = "generate_title"}

\* C24: when an announcement is staged (Canvas configured, course given), a
\* title given after the marker title: is the staged title and the generator
\* is not called; without one the generator is called exactly once, and when
\* that call fails the staged title is "Generated Content"; the announcement
\* is staged in every case.
C24_TitleResolution ==
    (/\ PostRequest(request, trace)
     /\ canvas_agent
     /\ HasCourse(request.message))
    => /\ Truthy(pending_announcement)
       /\ AsksYesNo(result)
       /\ IF ExtractTitle(request.message) # <<>>
          THEN /\ pending_announcement.title = ExtractTitle(request.message)
               /\ GenerateCalls(trace) = {}
          ELSE /\ Cardinality(GenerateCalls(trace)) = 1
               /\ \A i \in GenerateCalls(trace) :
                     trace[i].raised => pending_announcement.title = S_GeneratedContent

\* an announcement was staged under the fallback title after the generator
\* had failed
C24_Witness ==
    /\ PostRequest(request, trace)
    /\ canvas_agent
    /\ HasCourse(request.message)
    /\ ExtractTitle(request.message) = <<>>
    /\ \E i \in GenerateCalls(trace) : trace[i].raised
    /\ Truthy(pending_announcement)
    /\ pending_announcement.title = S_GeneratedContent

\* C25: the executor sends the link as the payload only when the staged
\* action has no other body: a quiz staged with a body is created with that
\* body as its content, whether or not a link occurs in what is sent along.
C25_BodyKept ==
    [][(/\ AffirmativeCall(request')
        /\ Truthy(pending_quiz)
        /\ pending_quiz.content # <<>>)
       => \A i \in ExecutorCalls(trace') :
             trace'[i].op = "create_quiz" => trace'[i].content = pending_quiz.content]_vars

\* the marker "points should be " written with single blanks
S_points_should_be == S_points \o <<" ">> \o S_should \o <<" ">> \o S_be \o <<" ">>

\* C26: an assignment request (Canvas configured, course and "Assignment:"
\* given) is staged and answered with the yes/no question whether or not it
\* names points; without the word points the staged points are 100, and with
\* "points should be N" they are N.
C26_PointsDefault ==
    (/\ AssignmentRequest(request, trace)
     /\ canvas_agent
     /\ HasCourse(request.message)
     /\ contains(request.message, S_Assignment))
    => /\ Truthy(pending_assignment)
       /\ AsksYesNo(result)
       /\ ~contains(request.message, S_points) => pending_assignment.points = 100
       /\ contains(request.message, S_points_should_be)
            => LET d == find(request.message, S_points_should_be)
                        + Len(S_points_should_be)
               IN  pending_assignment.points
                      = DigitsValue(request.message, d, DigitsEnd(request.message, d))

\* an assignment that names 50 points was staged with them while the session
\* had answered an earlier call
C26_Witness ==
    /\ AssignmentRequest(request, trace)
    /\ canvas_agent
    /\ served = 2
    /\ contains(request.message, S_points_should_be)
    /\ Truthy(pending_assignment)
    /\ pending_assignment.points = 50
    /\ AsksYesNo(result)

\* the executor call of the confirmation raised: the reply is the one of the
\* except clause of the confirmation handler
ExecutorRaised(r) ==
    /\ r.response # <<>>
    /\ r.response[1] \in {"Error creating quiz: ", "Error posting announcement: ",
                          "Error creating assignment: ", "Error creating page: "}

\* C28: when the executor call raises during an affirmative confirmation, the
\* reply is an error message of the kind's agent and the action that was
\* being confirmed is no longer pending.
C28_RaiseClears ==
    [][(/\ AffirmativeCall(request')
        /\ PendingKinds(pending) # {}
        /\ ExecutorRaised(result'))
       => /\ result'.agent = AgentOf(FirstPending(pending))
          /\ ~Truthy(SlotOf(pending', FirstPending(pending)))]_vars

\* C29: an affirmative or negative token resolves exactly one pending action:
\* the first slot set in the order quiz, announcement, assignment, page is
\* answered for and is empty afterwards, and every other slot is as it was.
C29_ResolvesFirstOnly ==
    [][((AffirmativeCall(request') \/ NegativeCall(request'))
        /\ PendingKinds(pending) # {})
       => /\ result'.agent = AgentOf(FirstPending(pending))
          /\ ~Truthy(SlotOf(pending', FirstPending(pending)))
          /\ \A k \in Kinds \ {FirstPending(pending)} :
                SlotOf(pending', k) = SlotOf(pending, k)]_vars

\* C30: a request that stages an action of a kind while something is pending
\* is not rejected: afterwards the slot of that kind holds the new payload,
\* the reply asks to answer yes or no, and the slot of every other kind is as
\* it was (Canvas configured, course and markers given).
C30_StagingOverwritesOwnKind ==
    [][(/\ TextCall(request')
        /\ canvas_agent
        /\ HasCourse(request'.message)
        /\ HasAssignmentMarker(request'.message)
        /\ PendingKinds(pending) # {})
       => \A k \in Kinds :
             Routed(trace') = AgentOf(k)
             => /\ Truthy(SlotOf(pending', k))
                /\ SlotOf(pending', k).course_name = CourseName(request'.message)
                /\ AsksYesNo(result')
                /\ \A j \in Kinds \ {k} : SlotOf(pending', j) = SlotOf(pending, j)]_vars

\* the collaborator calls the coroutine t has in flight
InFlight(t) ==
    IF tasks[t].pc \in {"classify", "directory", "executor", "general_llm",
                        "list_courses", "web_search", "web_llm"}
    THEN 1
    ELSE IF tasks[t].pc = "web_fetch" THEN tasks[t].fetches
    ELSE 0

RECURSIVE SumInFlight(_)
SumInFlight(t) == IF t = 0 THEN 0 ELSE InFlight(t) + SumInFlight(t - 1)

\* C22: within one session at most one collaborator call is in flight at any
\* time.
C22_OneInFlight == SumInFlight(NumTasks) <= 1

\* C27: a staged action is executed at most once: however two calls of
\* process_message interleave at their awaits, no two of them call the
\* executor with the same staged payload.
C27_ExecutedOnce ==
    \A t1, t2 \in Tasks :
        (t1 # t2 /\ tasks[t1].invoked # None) => tasks[t1].invoked # tasks[t2].invoked

KindOfLabel(label) ==
    CASE label \in {"quiz", "canvas_quiz"} -> "quiz"
      [] label \in {"announcement", "canvas_post"} -> "announcement"
      [] label \in {"assignment", "canvas_assignment"} -> "assignment"
      [] label \in {"page", "canvas_page"} -> "page"
      [] OTHER -> "none"

\* the label _route_message returned in the call r that left the trace tr
RouteLabel(r, tr) ==
    IF IsUpload(r.message) THEN UploadPostType(r.message) ELSE Routed(tr)

(***************************************************************************)
(* C32.  Whenever the router returns a label that names a kind, from the   *)
(* file-upload pre-filter or from the classifier, the handler of that      *)
(* kind answers, with or without an attachment.                            *)
(***************************************************************************)
C32_LabelRunsHandler ==
    [][(/\ HandledCall(request')
        /\ NoToken(request'.message)
        /\ KindOfLabel(RouteLabel(request', trace')) # "none")
       => result'.agent = AgentOf(KindOfLabel(RouteLabel(request', trace')))]_vars

\* the attachment of the call r is one that cannot be processed: its read
\* fails, or its name has no extension or one that is not supported
FailingAttachment(r) ==
    /\ r.op = "process_message"
    /\ r.file # None
    /\ \/ ~r.file.readable
       \/ (<<".">> \o FileExtension(r.file.filename)) \notin SupportedExtensions

(***************************************************************************)
(* C33.  When the attachment of a message fails processing, the reply is   *)
(* the file error of agent document_handler and no pending action is       *)
(* staged, executed or cleared, even when the text is a confirmation or a  *)
(* cancellation token.                                                     *)
(***************************************************************************)
C33_FileErrorFirst ==
    [][FailingAttachment(request')
       => /\ result'.agent = "document_handler"
          /\ result'.response # <<>>
          /\ result'.response[1] = "Error processing file: "
          /\ pending' = pending
          /\ trace' = <<>>]_vars

\* "yes" came with a file without extension while a quiz was pending, and
\* the quiz is still pending
C33_Witness ==
    /\ FailingAttachment(request)
    /\ lower(request.message) \in AffirmativeTokens
    /\ request.file = NoExtensionFile
    /\ Truthy(pending_quiz)
    /\ result.agent = "document_handler"

(***************************************************************************)
(* C34.  In a session without Canvas agent no pending action of any kind   *)
(* is ever set, and every request routed to post, quiz, assignment or page *)
(* is answered "Canvas is not configured...".                              *)
(***************************************************************************)
C34_NoCanvasNoPending ==
    /\ [](~canvas_agent => PendingKinds(pending) = {})
    /\ [][(/\ ~canvas_agent
           /\ TextCall(request')
           /\ NoToken(request'.message)
           /\ Routed(trace') \in {"canvas_post", "canvas_quiz", "canvas_assignment",
                                  "canvas_page"})
          => result'.response = R_NotConfigured]_vars

\* the scope name of the action a confirmation acts on
StagedScope(slots) == SlotOf(slots, FirstPending(slots)).course_name

\* the course of that id is listed and its name contains the scope name,
\* whatever the case of the letters
InScope(course_id, scope) ==
    \E courses \in CourseLists : \E j \in 1..Len(courses) :
        /\ courses[j].id = course_id
        /\ contains(lower(courses[j].name), lower(scope))

(***************************************************************************)
(* C35.  A staged action is only ever executed against a course whose name *)
(* contains the staged scope name as a non-empty substring, whatever the   *)
(* case: with an empty scope name or one that matches no listed course, no *)
(* executor operation is called.                                           *)
(***************************************************************************)
C35_ExecutedInScope ==
    [][(AffirmativeCall(request') /\ PendingKinds(pending) # {})
       => \A i \in ExecutorCalls(trace') :
             /\ StagedScope(pending) # <<>>
             /\ InScope(trace'[i].course_id, StagedScope(pending))]_vars

\* the calls of add_question in a trace
AddCalls(tr) == {i \in 1..Len(tr) : tr[i].op = "add_question"}

(***************************************************************************)
(* C36.  handle_structured_quiz reports success with question_count = n    *)
(* only if the quiz was created and all n parsed questions were added to   *)
(* it: when create_quiz or a call of add_question fails, the result is a   *)
(* failure.                                                                *)
(***************************************************************************)
C36_SuccessMeansAllAdded ==
    (request.op = "handle_structured_quiz" /\ result.success)
    => /\ \E i \in 1..Len(trace) : trace[i].op = "create_quiz"
       /\ Cardinality(AddCalls(trace)) = result.question_count
       /\ \A i \in AddCalls(trace) : trace[i].answer = "ok"

\* the number of answers of weight w of a question
WeightCount(question, w) ==
    Cardinality({i \in 1..Len(question.answers) : question.answers[i].weight = w})

(***************************************************************************)
(* C37.  Every question returned by parse_structured_quiz has exactly one  *)
(* answer of weight 100 and weight 0 on all its other answers.             *)
(***************************************************************************)
C37_OneCorrectAnswer ==
    request.op = "parse_structured_quiz"
    => \A i \in 1..Len(result.questions) :
          /\ WeightCount(result.questions[i], 100) = 1
          /\ WeightCount(result.questions[i], 0)
                = Len(result.questions[i].answers) - 1

\* the responses that end _fetch_url
FinalResponses == {"html", "other_type", "status"}

\* _fetch_url has returned
FetchReturned == request.op = "_fetch_url" /\ result.pc = "returned"

(***************************************************************************)
(* C38.  _fetch_url sends at most `retries` requests and then returns,     *)
(* whatever the responses are, and never raises: it returns the cleaned    *)
(* text at the first response that is a 200 HTML page, None at the first   *)
(* response of another content type or status (429 apart), and None when   *)
(* the attempts are used up.                                               *)
(***************************************************************************)
C38_FetchTerminates ==
    /\ [](request.op = "_fetch_url"
          => /\ Len(trace) <= request.retries
             /\ result.pc \in {"loop", "returned"}
             /\ \A i \in 1..(Len(trace) - 1) : trace[i].response \notin FinalResponses
             /\ result.pc = "returned"
                => IF trace # <<>> /\ trace[Len(trace)].response = "html"
                   THEN result.value = CleanedText
                   ELSE /\ result.value = None
                        /\ \/ Len(trace) = request.retries
                           \/ trace[Len(trace)].response \in FinalResponses)
    /\ (request.op = "_fetch_url") ~> FetchReturned

\* a 429 and a timeout were followed by a page at the third and last attempt
C38_Witness ==
    /\ request.op = "_fetch_url"
    /\ request.retries = DefaultRetries
    /\ result.pc = "returned"
    /\ result.value = CleanedText
    /\ Len(trace) = 3
    /\ trace[1].response = "rate_limit"
    /\ trace[2].response = "timeout"

====
